---- MODULE Spec2Model ----
(***************************************************************************)
(* A model of trz, the receiving side of the trzsz file transfer           *)
(* (trzsz/trz.go and the package helpers), together with the peer that     *)
(* uploads the files and the two byte streams of the terminal between      *)
(* them.  Text is modelled as sequences of bytes (0..255).                 *)
(***************************************************************************)
EXTENDS Integers, Sequences, FiniteSets, TLC

(***************************************************************************)
(* Bounds of the model.                                                    *)
(***************************************************************************)
MaxFiles == 2
MaxSize == 2
\* the bytes that arrive on stdin, and the calls of stopTransferringFiles counted
MaxInput == 3
MaxStops == 2
MaxRecords == 3
MaxNodes == 3
MaxBytes == 4
\* the calls of onSize, onStep and onDone on one progress bar, and the calls
\* of Close and Resize on one pty
MaxCalls == 4
\* the SIGWINCH signals delivered to the channel of a pty
MaxSignals == 2

(***************************************************************************)
(* Text helpers.                                                           *)
(***************************************************************************)
RECURSIVE Join(_, _)
Join(names, sep) ==
    IF Len(names) = 0 THEN <<>>
    ELSE IF Len(names) = 1 THEN names[1]
    ELSE names[1] \o sep \o Join(Tail(names), sep)

\* strconv / %d for a non-negative integer
RECURSIVE Itoa(_)
Itoa(n) == IF n < 10 THEN <<48 + n>> ELSE Itoa(n \div 10) \o <<48 + (n % 10)>>

\* The bytes of the frame tags and error types the code names.
TypeText(t) ==
    CASE t = "ACT" -> <<65, 67, 84>>
      [] t = "CFG" -> <<67, 70, 71>>
      [] t = "NUM" -> <<78, 85, 77>>
      [] t = "NAME" -> <<78, 65, 77, 69>>
      [] t = "SIZE" -> <<83, 73, 90, 69>>
      [] t = "DATA" -> <<68, 65, 84, 65>>
      [] t = "MD5" -> <<77, 68, 53>>
      [] t = "SUCC" -> <<83, 85, 67, 67>>
      [] t = "EXIT" -> <<69, 88, 73, 84>>
      [] t = "fail" -> <<102, 97, 105, 108>>
      [] t = "FAIL" -> <<70, 65, 73, 76>>
      [] t = "panic" -> <<112, 97, 110, 105, 99>>
      [] OTHER -> <<>>

\* "Cancelled"
MsgCancelled == <<67, 97, 110, 99, 101, 108, 108, 101, 100>>
\* "The client doesn't support transfer directory"
MsgNoDirSupport ==
    <<84, 104, 101, 32, 99, 108, 105, 101, 110, 116, 32, 100, 111, 101, 115,
      110, 39, 116, 32, 115, 117, 112, 112, 111, 114, 116, 32, 116, 114, 97,
      110, 115, 102, 101, 114, 32, 100, 105, 114, 101, 99, 116, 111, 114, 121>>
\* "Check MD5 failed"
MsgCheckMD5 == <<67, 104, 101, 99, 107, 32, 77, 68, 53, 32, 102, 97, 105, 108, 101, 100>>
\* "Stopped"
MsgStopped == <<83, 116, 111, 112, 112, 101, 100>>
\* "Timeout"
MsgTimeout == <<84, 105, 109, 101, 111, 117, 116>>
\* "[TrzszError] "
TrzszErrorPrefix == <<91, 84, 114, 122, 115, 122, 69, 114, 114, 111, 114, 93, 32>>
\* "decode [" and "] error: "
DecodeErrHead == <<100, 101, 99, 111, 100, 101, 32, 91>>
DecodeErrMid == <<93, 32, 101, 114, 114, 111, 114, 58, 32>>
\* what debug.Stack() returns: the text of the running goroutine's stack
debugStack == <<103, 111, 114, 111, 117, 116, 105, 110, 101, 32, 49>>

(***************************************************************************)
(* encodeBytes / decodeString: zlib, then standard base64.                 *)
(* The deflate stream is one stored block; the zlib wrapper is the         *)
(* two-byte header and the Adler-32 of the data, most significant byte     *)
(* first.                                                                  *)
(***************************************************************************)
\* the sum of buf[lo..hi], and the same with buf[i] counted Len(buf) - i + 1
\* times: the two sums of Adler-32 are 1 plus the first and Len(buf) plus the
\* second, modulo 65521
RECURSIVE byteSum(_, _, _)
byteSum(buf, lo, hi) ==
    IF lo > hi THEN 0
    ELSE IF lo = hi THEN buf[lo]
    ELSE byteSum(buf, lo, (lo + hi) \div 2) + byteSum(buf, (lo + hi) \div 2 + 1, hi)

RECURSIVE weightedSum(_, _, _)
weightedSum(buf, lo, hi) ==
    IF lo > hi THEN 0
    ELSE IF lo = hi THEN (Len(buf) - lo + 1) * buf[lo]
    ELSE weightedSum(buf, lo, (lo + hi) \div 2)
         + weightedSum(buf, (lo + hi) \div 2 + 1, hi)

adlerA(buf) == (1 + byteSum(buf, 1, Len(buf))) % 65521

adlerB(buf) == (Len(buf) + weightedSum(buf, 1, Len(buf))) % 65521

word(n) == <<n \div 256, n % 256>>

adler32(buf) == word(adlerB(buf)) \o word(adlerA(buf))

\* the header of a stored block of n bytes: final, LEN, NLEN
storedHeader(n) == <<1, n % 256, n \div 256, 255 - (n % 256), 255 - (n \div 256)>>

zlibCompress(buf) ==
    <<120, 156>> \o storedHeader(Len(buf)) \o buf \o adler32(buf)

\* [ok, data]: the inflated data, or ok = FALSE for a stream zlib rejects
zlibDecompress(z) ==
    IF Len(z) < 11 \/ z[1] # 120 \/ (z[1] * 256 + z[2]) % 31 # 0
    THEN [ok |-> FALSE, data |-> <<>>]
    ELSE IF SubSeq(z, 3, 7) # storedHeader(Len(z) - 11)
    THEN [ok |-> FALSE, data |-> <<>>]
    ELSE IF SubSeq(z, Len(z) - 3, Len(z)) # adler32(SubSeq(z, 8, Len(z) - 4))
    THEN [ok |-> FALSE, data |-> <<>>]
    ELSE [ok |-> TRUE, data |-> SubSeq(z, 8, Len(z) - 4)]

\* the base64 alphabet: the character of a 6-bit value, and back (-1: none)
b64Char(v) ==
    IF v < 26 THEN 65 + v
    ELSE IF v < 52 THEN 97 + (v - 26)
    ELSE IF v < 62 THEN 48 + (v - 52)
    ELSE IF v = 62 THEN 43 ELSE 47

b64Value(c) ==
    IF c >= 65 /\ c <= 90 THEN c - 65
    ELSE IF c >= 97 /\ c <= 122 THEN c - 97 + 26
    ELSE IF c >= 48 /\ c <= 57 THEN c - 48 + 52
    ELSE IF c = 43 THEN 62
    ELSE IF c = 47 THEN 63 ELSE -1

\* byte i of b, or 0 past its end
byteAt(b, i) == IF i <= Len(b) THEN b[i] ELSE 0

\* character p (0..3) of the group that encodes bytes k+1..k+3 of b
b64Group(b, k, p) ==
    IF p = 0 THEN b64Char(b[k + 1] \div 4)
    ELSE IF p = 1 THEN b64Char((b[k + 1] % 4) * 16 + byteAt(b, k + 2) \div 16)
    ELSE IF p = 2 THEN
        IF k + 2 > Len(b) THEN 61
        ELSE b64Char((b[k + 2] % 16) * 4 + byteAt(b, k + 3) \div 64)
    ELSE IF k + 3 > Len(b) THEN 61 ELSE b64Char(b[k + 3] % 64)

\* base64 without the padding
base64Encode_raw(b) ==
    [j \in 1..((4 * Len(b) + 2) \div 3) |-> b64Group(b, 3 * ((j - 1) \div 4), (j - 1) % 4)]

base64Encode(b) ==
    [j \in 1..(4 * ((Len(b) + 2) \div 3)) |-> b64Group(b, 3 * ((j - 1) \div 4), (j - 1) % 4)]

\* how many "=" end s
b64Padding(s) ==
    IF Len(s) < 4 THEN 0
    ELSE IF s[Len(s) - 1] = 61 THEN 2
    ELSE IF s[Len(s)] = 61 THEN 1 ELSE 0

\* whether s is padded standard base64
b64Valid(s) ==
    /\ Len(s) % 4 = 0
    /\ \A j \in 1..Len(s) :
          \/ b64Value(s[j]) >= 0
          \/ s[j] = 61 /\ j = Len(s)
          \/ s[j] = 61 /\ j = Len(s) - 1 /\ s[Len(s)] = 61

\* the 6-bit value of character j of s, 0 for the padding
b64ValueAt(s, j) == IF s[j] = 61 THEN 0 ELSE b64Value(s[j])

\* byte p (0..2) of the group decoded from characters k+1..k+4 of s
b64Byte(s, k, p) ==
    IF p = 0 THEN b64ValueAt(s, k + 1) * 4 + b64ValueAt(s, k + 2) \div 16
    ELSE IF p = 1 THEN (b64ValueAt(s, k + 2) % 16) * 16 + b64ValueAt(s, k + 3) \div 4
    ELSE (b64ValueAt(s, k + 3) % 4) * 64 + b64ValueAt(s, k + 4)

\* the bytes of valid base64 text s
b64Bytes(s) ==
    [i \in 1..(3 * (Len(s) \div 4) - b64Padding(s)) |->
        b64Byte(s, 4 * ((i - 1) \div 3), (i - 1) % 3)]

encodeBytes(buf) == base64Encode(zlibCompress(buf))

encodeString(str) == encodeBytes(str)

decodeString(str) ==
    IF ~b64Valid(str) THEN [ok |-> FALSE, data |-> <<>>]
    ELSE zlibDecompress(b64Bytes(str))

\* whether s is a non-empty run of decimal digits, and its value
IsDigits(s) == Len(s) > 0 /\ \A i \in 1..Len(s) : s[i] >= 48 /\ s[i] <= 57

RECURSIVE digitsValue(_)
digitsValue(s) ==
    IF Len(s) = 0 THEN 0
    ELSE digitsValue(SubSeq(s, 1, Len(s) - 1)) * 10 + (s[Len(s)] - 48)

(***************************************************************************)
(* TrzszError.  An error value is a record; the nil error is the empty     *)
(* sequence and a non-nil one the one-element sequence <<e>>.              *)
(***************************************************************************)
nil == <<>>

\* isTraceBack with the trace flag ignored
isTraceBack_never(e) == FALSE

\* isTraceBack that exempts only the fail frame
isTraceBack_onlyFail(e) ==
    IF e.errType = "fail" THEN FALSE ELSE e.trace

isTraceBack(e) ==
    IF e.errType = "fail" \/ e.errType = "EXIT" THEN FALSE ELSE e.trace

isRemoteExit(e) == e.errType = "EXIT"

\* isRemoteFail that knows only the lower-case frame
isRemoteFail_onlyLower(e) == e.errType = "fail"

isRemoteFail(e) == e.errType = "fail" \/ e.errType = "FAIL"

\* the text of the error decodeString returns
decodeErrText == <<99, 111, 114, 114, 117, 112, 116>>

\* lines 163-168: the message of a fail, FAIL or EXIT frame, decoded (d)
decodedMessage(message, d) ==
    IF ~d.ok THEN DecodeErrHead \o message \o DecodeErrMid \o decodeErrText
    ELSE d.data

\* lines 173-175: the stack appended to the message of a traceback error
withStack(e) ==
    IF isTraceBack(e) THEN [e EXCEPT !.message = @ \o <<10>> \o debugStack]
    ELSE e

\* NewTrzszError without lines 162-171: the message is kept as it came
NewTrzszError_keepsMessage(message, errType, trace) ==
    withStack([message |-> message, errType |-> errType, trace |-> trace])

NewTrzszError(message, errType, trace) ==
    withStack([message |->
                   IF errType = "fail" \/ errType = "FAIL" \/ errType = "EXIT"
                   THEN decodedMessage(message, decodeString(message))
                   ELSE IF errType # ""
                   THEN TrzszErrorPrefix \o TypeText(errType) \o <<58, 32>> \o message
                   ELSE message,
               errType |-> errType, trace |-> trace])

newTrzszError(message) == NewTrzszError(message, "", FALSE)

\* an error that is no *TrzszError (of strconv, base64, zlib, os): it has no
\* type and no stack, and serverError and clientError take trace = true for it
goError(message) == [message |-> message, errType |-> "", trace |-> TRUE]

(***************************************************************************)
(* Lines read from the terminal.                                           *)
(***************************************************************************)
\* isVT100End as the one range from "A" to "z"
isVT100End_oneRange(b) == 65 <= b /\ b <= 122

\* isVT100End that knows only the lower-case letters
isVT100End_lowerOnly(b) == 97 <= b /\ b <= 122

isVT100End(b) == (97 <= b /\ b <= 122) \/ (65 <= b /\ b <= 90)

\* the loop of trimVT100 from byte i on: b is what has been written so far
RECURSIVE trimLoop(_, _, _, _)
trimLoop(buf, i, skipVT100, b) ==
    IF i > Len(buf) THEN b
    ELSE IF skipVT100 THEN trimLoop(buf, i + 1, ~isVT100End(buf[i]), b)
    ELSE IF buf[i] = 27 THEN trimLoop(buf, i + 1, TRUE, b)
    ELSE trimLoop(buf, i + 1, FALSE, Append(b, buf[i]))

trimVT100(buf) == trimLoop(buf, 1, FALSE, <<>>)

\* the least and the greatest member of a set of positions, 0 for the empty set
Min0(S) == IF S = {} THEN 0 ELSE CHOOSE i \in S : \A j \in S : i <= j
Max0(S) == IF S = {} THEN 0 ELSE CHOOSE i \in S : \A j \in S : j <= i

\* the places in buf where text stands
Places(buf, text) ==
    {i \in 1..(Len(buf) - Len(text) + 1) : SubSeq(buf, i, i + Len(text) - 1) = text}

\* the line from its last marker "#<type>:" on; the whole line if it has none
fromMarker(line, p) == IF p = 0 THEN line ELSE SubSeq(line, p, Len(line))

\* the line that ends before place e, without its junk if junk is allowed
lineBefore(buf, e, allowJunk, type) ==
    IF e = 0 THEN [err |-> "Timeout", line |-> <<>>]
    ELSE IF ~allowJunk THEN [err |-> "nil", line |-> SubSeq(buf, 1, e - 1)]
    ELSE [err |-> "nil",
          line |-> fromMarker(trimVT100(SubSeq(buf, 1, e - 1)),
                              Max0(Places(trimVT100(SubSeq(buf, 1, e - 1)),
                                          <<35>> \o TypeText(type) \o <<58>>)))]

\* readLine on the bytes buf of the buffer: the next line ended by newline,
\* for a frame of the given type
readLine(buf, newline, allowJunk, type) ==
    lineBefore(buf, Min0(Places(buf, newline)), allowJunk, type)

(***************************************************************************)
(* BufferSize.UnmarshalText.  An int64 does not fit an integer of the      *)
(* model checker, so a number is the sequence of its eleven digits to the  *)
(* base 1024, the least first; an int64 is the first six of them and the   *)
(* low four bits of the seventh, and is negative if the seventh is 8 or    *)
(* more.                                                                   *)
(***************************************************************************)
\* the carry into digit k of 10 * v + d
RECURSIVE carryInto(_, _, _)
carryInto(v, d, k) ==
    IF k = 1 THEN d ELSE (v[k - 1] * 10 + carryInto(v, d, k - 1)) \div 1024

\* digit k of 10 * v + d
digitAt(v, d, k) == (v[k] * 10 + carryInto(v, d, k)) % 1024

timesTenPlus(v, d) ==
    <<digitAt(v, d, 1), digitAt(v, d, 2), digitAt(v, d, 3), digitAt(v, d, 4),
      digitAt(v, d, 5), digitAt(v, d, 6), digitAt(v, d, 7), digitAt(v, d, 8),
      digitAt(v, d, 9), digitAt(v, d, 10), digitAt(v, d, 11)>>

\* the number written with the first n bytes of s, decimal digits (n <= 20)
RECURSIVE decimal(_, _)
decimal(s, n) ==
    IF n = 0 THEN <<0, 0, 0, 0, 0, 0, 0, 0, 0, 0, 0>>
    ELSE CHOOSE w \in {timesTenPlus(v, s[n] - 48) : v \in {decimal(s, n - 1)}} : TRUE

\* v * 1024^u
shifted(v, u) == [k \in 1..11 |-> IF k > u THEN v[k - u] ELSE 0]

\* the int64 the number becomes in a multiplication that overflows
asInt64(v) == [k \in 1..11 |-> IF k < 7 THEN v[k] ELSE IF k = 7 THEN v[7] % 16 ELSE 0]

\* strconv.ParseInt(_, 10, 64) takes a number up to 2^63 - 1
fitsInt64(v) == v[7] < 8 /\ \A k \in 8..11 : v[k] = 0

negative(v) == v[7] >= 8 /\ \A k \in 8..11 : v[k] = 0

\* v < 1024, v > 1024^3 and the value of a v that is at most 1024^3, for v >= 0
below1K(v) == \A k \in 2..11 : v[k] = 0
above1G(v) ==
    \/ \E k \in 5..11 : v[k] # 0
    \/ v[4] > 1
    \/ v[4] = 1 /\ \E k \in 1..3 : v[k] # 0
valueOf(v) == v[1] + 1024 * v[2] + 1048576 * v[3] + 1073741824 * v[4]

\* how many decimal digits stand at the start of buf
leadingDigits(buf) ==
    IF \A i \in 1..Len(buf) : buf[i] >= 48 /\ buf[i] <= 57 THEN Len(buf)
    ELSE Min0({i \in 1..Len(buf) : buf[i] < 48 \/ buf[i] > 57}) - 1

toLower(str) ==
    [i \in 1..Len(str) |-> IF str[i] >= 65 /\ str[i] <= 90 THEN str[i] + 32 ELSE str[i]]

\* the power of 1024 for a suffix in lower case: none or b, k or kb, m or mb,
\* g or gb; -1 for what sizeRegexp does not match
unitOf(suffix) ==
    IF suffix \in {<<>>, <<98>>} THEN 0
    ELSE IF suffix \in {<<107>>, <<107, 98>>} THEN 1
    ELSE IF suffix \in {<<109>>, <<109, 98>>} THEN 2
    ELSE IF suffix \in {<<103>>, <<103, 98>>} THEN 3
    ELSE -1

\* "invalid size ", "less than 1K", "greater than 1G"
MsgInvalidSize == <<105, 110, 118, 97, 108, 105, 100, 32, 115, 105, 122, 101, 32>>
MsgLessThan1K == <<108, 101, 115, 115, 32, 116, 104, 97, 110, 32, 49, 75>>
MsgGreaterThan1G == <<103, 114, 101, 97, 116, 101, 114, 32, 116, 104, 97, 110, 32, 49, 71>>

\* lines 115-123: the checks of sizeValue
checkedSize(v) ==
    IF negative(v) \/ below1K(v) THEN [err |-> <<MsgLessThan1K>>, Size |-> 0]
    ELSE IF above1G(v) THEN [err |-> <<MsgGreaterThan1G>>, Size |-> 0]
    ELSE [err |-> nil, Size |-> valueOf(v)]

\* lines 93-114: buf starts with n digits and goes on with a suffix for 1024^u
parsedSize(buf, n, u) ==
    IF n = 0 \/ n > 20 \/ u = -1 THEN [err |-> <<MsgInvalidSize \o buf>>, Size |-> 0]
    ELSE IF ~fitsInt64(decimal(buf, n)) THEN [err |-> <<MsgInvalidSize \o buf>>, Size |-> 0]
    ELSE checkedSize(asInt64(shifted(decimal(buf, n), u)))

\* the suffix of buf after its n digits
suffixOf(buf, n) == toLower(SubSeq(buf, n + 1, Len(buf)))

\* what UnmarshalText returns and, if that is nil, the Size it has set
UnmarshalText(buf) ==
    parsedSize(buf, leadingDigits(buf), unitOf(suffixOf(buf, leadingDigits(buf))))

(***************************************************************************)
(* The escape codec of the binary mode.  A table is a sequence of entries  *)
(* [orig, pair]: the byte orig is sent as the two bytes pair, the first of *)
(* which is the escape lead.                                               *)
(***************************************************************************)
\* the escape lead of a table
leadOf(table) == table[1].pair[1]

\* whether the table can be undone: every pair starts with the lead; the lead
\* and the byte 2 have entries; no byte and no pair is there twice; the
\* second byte of a pair is not escaped itself, but for the lead
PayloadSafe(table) ==
    /\ Len(table) >= 2
    /\ \A i \in 1..Len(table) : table[i].pair[1] = leadOf(table)
    /\ \E i \in 1..Len(table) : table[i].orig = leadOf(table)
    /\ \E i \in 1..Len(table) : table[i].orig = 2
    /\ \A i, j \in 1..Len(table) :
          i # j => /\ table[i].orig # table[j].orig
                   /\ table[i].pair[2] # table[j].pair[2]
    /\ \A i, j \in 1..Len(table) :
          table[i].pair[2] = table[j].orig => table[j].orig = leadOf(table)

\* bytes.ReplaceAll(buf, []byte{orig}, pair)
RECURSIVE replaceAll(_, _, _)
replaceAll(buf, orig, pair) ==
    IF buf = <<>> THEN <<>>
    ELSE (IF buf[1] = orig THEN pair ELSE <<buf[1]>>) \o replaceAll(Tail(buf), orig, pair)

\* buf with the entries of the sequence replaced one after the other
RECURSIVE replaceEach(_, _)
replaceEach(buf, entries) ==
    IF entries = <<>> THEN buf
    ELSE replaceEach(replaceAll(buf, entries[1].orig, entries[1].pair), Tail(entries))

\* the entries of the table for the lead, and the others in their order
leadEntries(table) == SelectSeq(table, LAMBDA e : e.orig = leadOf(table))
otherEntries(table) == SelectSeq(table, LAMBDA e : e.orig # leadOf(table))

\* escape that goes through the table as it stands
escape_tableOrder(buf, table) == replaceEach(buf, table)

\* escape: the lead is replaced first, then the others in the order of the table
escape(buf, table) == replaceEach(buf, leadEntries(table) \o otherEntries(table))

\* the entries of the table whose pair ends with the byte second
entriesFor(table, second) == SelectSeq(table, LAMBDA e : e.pair[2] = second)

\* unescape from byte i on, out being what is decoded so far: a lead with an
\* unknown byte after it, or with none, is an error
RECURSIVE unescapeFrom(_, _, _, _)
unescapeFrom(buf, table, i, out) ==
    IF i > Len(buf) THEN [ok |-> TRUE, data |-> out]
    ELSE IF buf[i] # leadOf(table) THEN unescapeFrom(buf, table, i + 1, Append(out, buf[i]))
    ELSE IF i = Len(buf) \/ entriesFor(table, buf[i + 1]) = <<>>
    THEN [ok |-> FALSE, data |-> <<>>]
    ELSE unescapeFrom(buf, table, i + 2, Append(out, entriesFor(table, buf[i + 1])[1].orig))

unescape(buf, table) == unescapeFrom(buf, table, 1, <<>>)

(***************************************************************************)
(* Names for received files.  A directory is the record of its entries:    *)
(* files, the names os.Stat finds, and links, the names of symbolic links  *)
(* whose target is missing.                                                *)
(***************************************************************************)
\* the longest name the file system takes
NameMax == 255

ProbeLimit == 1000

\* "Fail to assign new file name"
MsgFailNewName ==
    <<70, 97, 105, 108, 32, 116, 111, 32, 97, 115, 115, 105, 103, 110, 32, 110,
      101, 119, 32, 102, 105, 108, 101, 32, 110, 97, 109, 101>>

\* the error of os.Stat(filepath.Join(path, name)), dir being what path holds:
\* os.Stat follows symbolic links
Stat(dir, name) ==
    IF Len(name) > NameMax THEN "ENAMETOOLONG"
    ELSE IF name \in dir.files THEN "nil"
    ELSE "ENOENT"

\* fmt.Sprintf("%s.%d", name, i)
newName(name, i) == name \o <<46>> \o Itoa(i)

\* what the loop of getNewName returns when it stops at i = k - 1, and at its
\* end for k = 0
probed(name, k) ==
    IF k = 0 THEN [name |-> <<>>, err |-> newTrzszError(MsgFailNewName)]
    ELSE [name |-> newName(name, k - 1), err |-> nil]

getNewName(dir, name) ==
    IF Stat(dir, name) = "ENOENT" THEN [name |-> name, err |-> nil]
    ELSE probed(name, Min0({k \in 1..ProbeLimit :
                              Stat(dir, newName(name, k - 1)) = "ENOENT"}))

(***************************************************************************)
(* The state.                                                              *)
(***************************************************************************)
VARIABLES
    pc,          \* where TrzMain / recvFiles stands
    args,        \* TrzArgs: Binary, Directory
    isWindows,   \* IsWindows()
    inTmux,      \* whether the environment variable TMUX is set
    now,         \* time.Now().UnixMilli() when the unique id is made, as
                 \* three numbers below 10^6, the lowest first
    tmux,        \* what checkTmux returned: mode, writer, width
    stdout,      \* what TrzMain wrote to os.Stdout before the handshake
    stderr,      \* what TrzMain wrote to os.Stderr: the step that failed and
                 \* its error
    term,        \* the terminal of stdin: "cooked", "raw" or "restored"
    exitCode,    \* what TrzMain returned (read when pc = "done")
    action,      \* the TransferAction recvAction returned
    err,         \* the error recvFiles returned: nil or <<e>>
    phases,      \* the phases of recvFiles that succeeded, in order
    errorCalls,  \* the errors handed to serverError, in order
    farewell,    \* the messages serverExit printed, in order
    recv,        \* transfer.recvFiles: num, idx, name, size, data, localNames
    toServer,    \* frames written by the peer, not yet read by trz
    toClient,    \* frames written by trz, not yet read by the peer
    wire,        \* what has been written so far: who wrote which types of
                 \* frame, the batch frames not yet answered by a SUCC, the
                 \* NAME frames, the fail and FAIL frames of trz
    peer,        \* the uploading peer: pc, cfg, num, idx, size, off, len, names, err
    damaged,     \* whether the terminal has damaged a DATA frame in flight
    call,        \* a function of the package called on its own: its name and
                 \* its arguments
    result,      \* what the call returned: <<>> before it returns, then <<r>>
    stdin,       \* os.Stdin: how many bytes have been read, whether it is closed
    pump,        \* wrapStdinInput: where it stands, its buffer, what Read returned
    mem,         \* the byte arrays that make() has handed out
    transfer,    \* the TrzszTransfer the pump feeds: the chunks queued, the
                 \* bytes the reader has taken, the stop flag, the time since
                 \* the last input, cleanTimeout, whether a push was ignored
    sigstop,     \* handleServerSignal: the channel and the goroutine
    reader,      \* the state machine as a reader: where it stands, the result
                 \* of its last read
    stopCalls,   \* how often stopTransferringFiles has been called (up to
                 \* MaxStops)
    destDir,     \* the directory files are received into: its entries
    naming,      \* the receiver of a directory batch: overwrite, fileNameMap,
                 \* the records placed with the root each was placed under,
                 \* the error that ended it
    fs,          \* the files the sender walks, as far as the walk has looked at
                 \* them: per file its kind and, for a directory that was
                 \* read, its entries
    walk,        \* checkPathsReadable: where it stands, directory, the number
                 \* of paths, the paths looked up so far, the calls of
                 \* checkPathReadable that are open, list, visitedDir, what
                 \* it returned
    sending,     \* sendFileData: where it stands, size, MaxBufSize, bufSize,
                 \* step, the chunks sent, whether each of them filled the
                 \* buffer in under 500 ms, maxChunkTime, and of the last
                 \* chunk the buffer it was read into, its length and its time
    progress,    \* the text progress bar: the clock, the calls made, the
                 \* time of the last line, what was written
    pty          \* a TrzszPty and the goroutines that call it: mutex, closed,
                 \* ch, ptmx, where each goroutine stands

\* the run of TrzMain against the peer
runVars ==
    <<pc, args, isWindows, inTmux, now, tmux, stdout, stderr, term, exitCode, action, err, phases,
      errorCalls, farewell, recv, toServer, toClient, wire, peer, damaged>>

\* the parts of the package taken on their own
\* the stdin pump, the signal handler and the buffer between them and the reader
bufferVars == <<stdin, pump, mem, transfer, sigstop, reader, stopCalls>>

\* the receiver naming what it receives
nameVars == <<destDir, naming>>

\* the sender walking the paths it was given
walkVars == <<fs, walk>>

\* the sender and the file it is sending
senderVars == <<walkVars, sending>>

\* the client's progress bar and its pty
clientVars == <<progress, pty>>

partVars == <<call, result, bufferVars, nameVars, senderVars, clientVars>>

vars == <<runVars, partVars>>

serverVars ==
    <<pc, args, isWindows, inTmux, tmux, stdout, term, exitCode, action, err, phases,
      errorCalls, farewell, recv>>

NoTmux == 0
TmuxNormalMode == 1
TmuxControlMode == 2

\* the destination directory, "/d"
DestPath == <<47, 100>>

Frame(type, payload) == [type |-> type, payload |-> payload]

\* the frames of the per-batch exchange, and the frames that report an error
BatchTypes == {"NUM", "NAME", "SIZE", "DATA", "MD5"}
ErrorTypes == {"fail", "FAIL"}

NoFrames == [types |-> {}, unacked |-> 0, names |-> 0, errors |-> 0]

\* the wire after who has written frame f
Sent(who, f) ==
    [types |-> wire.types \cup {<<who, f.type>>},
     unacked |-> IF who = "peer" /\ f.type \in BatchTypes THEN wire.unacked + 1
                 ELSE IF who = "server" /\ f.type = "SUCC" THEN wire.unacked - 1
                 ELSE wire.unacked,
     names |-> IF who = "peer" /\ f.type = "NAME" THEN wire.names + 1 ELSE wire.names,
     errors |-> IF who = "server" /\ f.type \in ErrorTypes THEN wire.errors + 1
                ELSE wire.errors]

NoAction == [Confirm |-> FALSE, SupportBinary |-> FALSE, SupportDirectory |-> FALSE]

RecvIdle ==
    [num |-> 0, idx |-> 0, name |-> <<>>, size |-> 0, data |-> <<>>,
     localNames |-> <<>>]

PeerIdle ==
    [pc |-> "idle", max |-> 0, cfg |-> <<>>, num |-> 0, idx |-> 0, isDir |-> FALSE,
     size |-> 0, off |-> 0, len |-> 0, names |-> <<>>, err |-> nil]

NoCall == [fn |-> "none"]

\* the size of the array wrapStdinInput reads into: room for all the input
bufSize == MaxInput

\* cleanTimeout in ticks: 100 ms, and the 500 ms of a stopped transfer
DefaultClean == 1
EscalatedClean == 5
maxDuration(a, b) == IF a > b THEN a ELSE b

\* the time, in ticks, of a chunk that took 300 ms
LongChunk == 3

\* no part is exercised on its own
\* the pump and the signal handler as TrzMain starts them (lines 162-163)
BufferStart ==
    /\ stdin = [pos |-> 0, closed |-> FALSE]
    /\ pump = [pc |-> "Read", buffer |-> 0, n |-> 0, err |-> "nil"]
    /\ mem = [id \in 0..MaxInput |-> [k \in 1..bufSize |-> 0]]
    /\ transfer = [queue |-> <<>>, taken |-> <<>>, stopped |-> FALSE, quiet |-> 0,
                   cleanTimeout |-> DefaultClean, maxChunkTime |-> 0,
                   ignored |-> FALSE]
    /\ sigstop = [ch |-> <<>>, pc |-> "wait"]
    /\ reader = [pc |-> "idle", timeout |-> FALSE, result |-> "none", wait |-> 0]
    /\ stopCalls = 0

\* an empty directory and a receiver that has received no name
NamesStart ==
    /\ destDir = [files |-> {}, links |-> {}]
    /\ naming = [overwrite |-> FALSE, fileNameMap |-> <<>>, placed |-> <<>>, err |-> nil]

\* no walk
WalkOff ==
    /\ fs = <<>>
    /\ walk = [pc |-> "off"]

\* no walk, and no file is being sent
SenderOff ==
    /\ WalkOff
    /\ sending = [pc |-> "off"]

\* no progress bar and no pty
ClientOff ==
    /\ progress = [pc |-> "off"]
    /\ pty = [pc |-> "off"]

PartsIdle ==
    /\ call = NoCall
    /\ result = <<>>
    /\ BufferStart
    /\ NamesStart
    /\ SenderOff
    /\ ClientOff

\* 2023-11-14 22:13:32.345 UTC in milliseconds: 1 700 000 012 345
Clock2023 == <<12345, 700000, 1>>

\* 2030-08-07 14:56:40.007 UTC in milliseconds: 1 912 345 000 007
Clock2030 == <<7, 912345, 1>>

\* the state TrzMain starts in, but for the platform and the peer's batch
Start ==
    /\ pc = "Abs"
    /\ args \in [Binary : BOOLEAN, Directory : BOOLEAN]
    /\ tmux = [mode |-> NoTmux, writer |-> "stdout", width |-> -1]
    /\ stdout = <<>>
    /\ stderr = <<>>
    /\ term = "cooked"
    /\ exitCode = 0
    /\ action = NoAction
    /\ err = nil
    /\ phases = <<>>
    /\ errorCalls = <<>>
    /\ farewell = <<>>
    /\ recv = RecvIdle
    /\ toServer = <<>>
    /\ toClient = <<>>
    /\ wire = NoFrames
    /\ damaged = FALSE
    /\ PartsIdle

\* trz on a Unix terminal outside tmux; the peer uploads up to MaxFiles files
Init ==
    /\ Start
    /\ isWindows = FALSE
    /\ inTmux = FALSE
    /\ now = Clock2023
    /\ peer = [PeerIdle EXCEPT !.max = MaxFiles]

\* trz on every platform, inside and outside tmux (the runs outside at the one
\* time, the runs inside at the other); the peer uploads one file
InitEnv ==
    /\ Start
    /\ isWindows \in BOOLEAN
    /\ inTmux \in BOOLEAN
    /\ now = IF inTmux THEN Clock2030 ELSE Clock2023
    /\ peer = [PeerIdle EXCEPT !.max = 1]

(***************************************************************************)
(* TrzMain, up to the handshake.                                           *)
(***************************************************************************)
Exit(code) ==
    /\ pc' = "done"
    /\ exitCode' = code

\* a failure with the exit code made positive
Fail_positiveCode(step, text, code) ==
    /\ stderr' = Append(stderr, [step |-> step, text |-> text])
    /\ Exit(-code)

\* fmt.Fprintln(os.Stderr, err) and return code
Fail(step, text, code) ==
    /\ stderr' = Append(stderr, [step |-> step, text |-> text])
    /\ Exit(code)

\* a Restore that leaves the terminal as it is
Restore_noop(t) == t

\* term.Restore(fd, state): the terminal t back in the state MakeRaw saved
Restore(t) == "restored"

\* line 169 and the deferred calls: the terminal restored, the result 0
TrzMain_return ==
    /\ term' = Restore(term)
    /\ Exit(0)

\* filepath.Abs fails only when the working directory cannot be read
TrzMain_Abs ==
    /\ pc = "Abs"
    /\ \E ok \in BOOLEAN :
        IF ok
        THEN pc' = "checkPathWritable" /\ UNCHANGED <<exitCode, stderr>>
        ELSE Fail("Abs", "getwd error", -1)
    /\ UNCHANGED <<args, isWindows, inTmux, tmux, stdout, term, action, err, phases,
                   errorCalls, farewell, recv, toServer, toClient, wire, peer, damaged>>
    /\ UNCHANGED <<now, partVars>>

\* what os.Stat and the access check find at the destination path
PathStates == {"missing", "staterr", "file", "readonly", "dir"}

\* "ok", or the error returned
checkPathWritable(st) ==
    IF st = "missing" THEN "No such directory"
    ELSE IF st = "staterr" THEN "stat error"
    ELSE IF st = "file" THEN "Not a directory"
    ELSE IF st = "readonly" THEN "No permission to write"
    ELSE "ok"

TrzMain_checkPathWritable ==
    /\ pc = "checkPathWritable"
    /\ \E st \in PathStates :
        IF checkPathWritable(st) # "ok"
        THEN Fail("checkPathWritable", checkPathWritable(st), -2)
        ELSE pc' = "checkTmux" /\ UNCHANGED <<exitCode, stderr>>
    /\ UNCHANGED <<args, isWindows, inTmux, tmux, stdout, term, action, err, phases,
                   errorCalls, farewell, recv, toServer, toClient, wire, peer, damaged>>
    /\ UNCHANGED <<now, partVars>>

\* The environment checkTmux probes: whether TMUX is set, whether the tmux
\* command ran, its output split at ":", whether the tty exists and opens.
TmuxAnswers ==
    {<<"/dev/pts/1", "0", "80">>, <<"/dev/pts/1", "1", "80">>,
     <<"", "0", "80">>, <<"", "1", "80">>,
     <<"pts", "0", "80">>, <<"/dev/pts/1", "0", "x">>,
     <<"/dev/pts/1", "0">>}

TmuxProbes ==
    [env : {inTmux}, cmdOk : BOOLEAN, tokens : TmuxAnswers,
     exists : BOOLEAN, openOk : BOOLEAN]

IsAbsolute(tty) == tty = "/dev/pts/1"

\* [kind, mode, writer, width]; kind is "ok", "err", or "panic" for the
\* index out of range that tmuxTty[0] raises on an empty tty
checkTmux(p) ==
    LET res(k, m, w, c) == [kind |-> k, mode |-> m, writer |-> w, width |-> c]
    IN  IF ~p.env THEN res("ok", NoTmux, "stdout", -1)
        ELSE IF ~p.cmdOk THEN res("err", 0, "none", -1)
        ELSE IF Len(p.tokens) # 3 THEN res("err", 0, "none", -1)
        ELSE IF p.tokens[2] = "1" THEN res("ok", TmuxControlMode, "stdout", -1)
        ELSE IF p.tokens[1] = "" THEN res("panic", 0, "none", -1)
        ELSE IF ~IsAbsolute(p.tokens[1]) THEN res("ok", TmuxControlMode, "stdout", -1)
        ELSE IF ~p.exists THEN res("ok", TmuxControlMode, "stdout", -1)
        ELSE IF ~p.openOk THEN res("err", 0, "none", -1)
        ELSE IF p.tokens[3] = "" THEN res("ok", TmuxNormalMode, "tty", -1)
        ELSE IF p.tokens[3] = "80" THEN res("ok", TmuxNormalMode, "tty", 80)
        ELSE res("err", 0, "none", -1)

TrzMain_checkTmux ==
    /\ pc = "checkTmux"
    /\ \E p \in TmuxProbes :
        LET r == checkTmux(p)
        IN  IF r.kind = "panic"
            THEN pc' = "crashed" /\ UNCHANGED <<exitCode, tmux, stderr>>
            ELSE IF r.kind = "err"
            THEN Fail("checkTmux", "tmux error", -3) /\ UNCHANGED tmux
            ELSE /\ pc' = "marker"
                 /\ tmux' = [mode |-> r.mode, writer |-> r.writer, width |-> r.width]
                 /\ UNCHANGED <<exitCode, stderr>>
    /\ UNCHANGED <<args, isWindows, inTmux, stdout, term, action, err, phases,
                   errorCalls, farewell, recv, toServer, toClient, wire, peer, damaged>>
    /\ UNCHANGED <<now, partVars>>

\* the checks without the one for Windows
binaryAfterChecks_tmuxOnly(binary, mode, windows) ==
    IF binary /\ mode # NoTmux THEN FALSE ELSE binary

\* args.Binary after the two checks that precede the marker
binaryAfterChecks(binary, mode, windows) ==
    LET b1 == IF binary /\ mode # NoTmux THEN FALSE ELSE binary
    IN  IF b1 /\ windows THEN FALSE ELSE b1

\* t % 10e10
mod1e11_whole(t) == t

mod1e11(t) == <<t[1], t[2] % 100000, 0>>

\* the six digits of a number below 10^6
sixDigits(n) == Tail(Itoa(1000000 + n))

\* strconv.FormatInt(t, 10) for t >= 0
FormatInt(t) ==
    IF t[3] > 0 THEN Itoa(t[3]) \o sixDigits(t[2]) \o sixDigits(t[1])
    ELSE IF t[2] > 0 THEN Itoa(t[2]) \o sixDigits(t[1])
    ELSE Itoa(t[1])

\* what TrzMain writes to os.Stdout before the marker: the notice that binary
\* mode is off, and in tmux normal mode the lines that make room
noticesBefore(binary, mode, windows) ==
    (IF binary /\ mode # NoTmux THEN <<[what |-> "notice", text |-> "tmux"]>>
     ELSE IF binary /\ windows THEN <<[what |-> "notice", text |-> "Windows"]>>
     ELSE <<>>)
    \o (IF ~windows /\ mode = TmuxNormalMode THEN <<[what |-> "cursor"]>> ELSE <<>>)

\* the markers among what was written
Markers(out) == SelectSeq(out, LAMBDA w : w.what = "marker")

\* the two digits appended to the unique id
uniqueIDSuffix(mode, windows) ==
    IF windows THEN "10" ELSE IF mode = TmuxNormalMode THEN "20" ELSE "00"

markerMode(directory) == IF directory THEN "D" ELSE "R"

TrzMain_writeMarker ==
    /\ pc = "marker"
    /\ args' = [args EXCEPT !.Binary = binaryAfterChecks(args.Binary, tmux.mode, isWindows)]
    /\ stdout' = stdout \o noticesBefore(args.Binary, tmux.mode, isWindows)
                        \o <<[what |-> "marker",
                              mode |-> markerMode(args.Directory),
                              id |-> FormatInt(mod1e11(now)),
                              suffix |-> uniqueIDSuffix(tmux.mode, isWindows)]>>
    /\ pc' = "MakeRaw"
    /\ UNCHANGED <<isWindows, inTmux, tmux, term, exitCode, action, err, phases,
                   errorCalls, farewell, recv, toServer, toClient, wire, peer, damaged>>
    /\ UNCHANGED <<now, stderr, partVars>>

TrzMain_MakeRaw ==
    /\ pc = "MakeRaw"
    /\ \E ok \in BOOLEAN :
        IF ok
        THEN pc' = "recvAction" /\ term' = "raw" /\ UNCHANGED <<exitCode, stderr>>
        ELSE Fail("MakeRaw", "tty error", -4) /\ UNCHANGED term
    /\ UNCHANGED <<args, isWindows, inTmux, tmux, stdout, action, err, phases,
                   errorCalls, farewell, recv, toServer, toClient, wire, peer, damaged>>
    /\ UNCHANGED <<now, partVars>>

(***************************************************************************)
(* The transfer object trz drives (TrzszTransfer).                         *)
(***************************************************************************)
\* "Received ", ", " and " to "
MsgReceived == <<82, 101, 99, 101, 105, 118, 101, 100, 32>>
CommaSpace == <<44, 32>>
MsgTo == <<32, 116, 111, 32>>
\* the text of a recovered panic
MsgPanic == <<114, 117, 110, 116, 105, 109, 101, 32, 101, 114, 114, 111, 114>>

\* the MD5 digest of the bytes written, as a value that differs whenever the
\* bytes differ
md5Sum(data) == <<Len(data)>> \o data

\* recvCheck: the payload of frame f when its type is the expected one
recvCheck(f, expect) ==
    IF f.type # expect
    THEN [err |-> <<NewTrzszError(f.payload, f.type, TRUE)>>, payload |-> <<>>]
    ELSE [err |-> nil, payload |-> f.payload]

\* "strconv.ParseInt: parsing " and ": invalid syntax"
MsgParseInt == <<115, 116, 114, 99, 111, 110, 118, 46, 80, 97, 114, 115, 101, 73, 110, 116, 58, 32, 112, 97, 114, 115, 105, 110, 103, 32>>
MsgInvalidSyntax == <<58, 32, 105, 110, 118, 97, 108, 105, 100, 32, 115, 121, 110, 116, 97, 120>>

\* the error of strconv.ParseInt for a text that is no number
parseIntError(text) == goError(MsgParseInt \o <<34>> \o text \o <<34>> \o MsgInvalidSyntax)

\* recvInteger: [err, n], from what recvCheck returned
parseInteger(r) ==
    IF r.err # nil THEN [err |-> r.err, n |-> 0]
    ELSE IF ~IsDigits(r.payload) THEN [err |-> <<parseIntError(r.payload)>>, n |-> 0]
    ELSE [err |-> nil, n |-> digitsValue(r.payload)]

recvInteger(f, expect) == parseInteger(recvCheck(f, expect))

\* recvString / recvBinary: [err, data], from what recvCheck returned
parseBinary(r) ==
    IF r.err # nil THEN [err |-> r.err, data |-> <<>>]
    ELSE IF ~decodeString(r.payload).ok
    THEN [err |-> <<goError(decodeErrText)>>, data |-> <<>>]
    ELSE [err |-> nil, data |-> decodeString(r.payload).data]

recvBinary(f, expect) == parseBinary(recvCheck(f, expect))

\* cleanInput, then the terminal restored and the farewell printed
serverExit(msg) ==
    /\ toServer' = <<>>
    /\ term' = Restore(term)
    /\ farewell' = Append(farewell, msg)

\* the frame type serverError picks for a local error
errorFrameType(e) == IF isTraceBack(e) THEN "FAIL" ELSE "fail"

\* whether serverError answers the error with a frame
echoesError(e) == ~(isRemoteExit(e) \/ isRemoteFail(e))

serverError(e) ==
    /\ errorCalls' = Append(errorCalls, e)
    /\ IF echoesError(e)
       THEN LET f == Frame(errorFrameType(e), encodeString(e.message))
            IN  /\ toClient' = Append(toClient, f)
                /\ wire' = Sent("server", f)
       ELSE UNCHANGED <<toClient, wire>>
    /\ serverExit(e.message)

\* an error that does not end recvFiles: the farewell is still issued
Return_keepsGoing(e) ==
    /\ pc' = "farewell"
    /\ err' = <<e>>

\* recvFiles returns e
Return(e) ==
    /\ pc' = "serverError"
    /\ err' = <<e>>

\* a SUCC frame written to the peer
Ack(payload) ==
    LET f == Frame("SUCC", payload)
    IN  /\ toClient' = Append(toClient, f)
        /\ wire' = Sent("server", f)

(***************************************************************************)
(* recvFiles of trz.go.                                                    *)
(***************************************************************************)
recvFiles_recvAction ==
    /\ pc = "recvAction"
    /\ toServer # <<>>
    /\ LET r == recvCheck(Head(toServer), "ACT")
       IN  IF r.err # nil
           THEN Return(r.err[1]) /\ UNCHANGED <<action, phases>>
           ELSE /\ action' = r.payload
                /\ phases' = Append(phases, "ACT")
                /\ pc' = "checkAction"
                /\ UNCHANGED err
    /\ toServer' = Tail(toServer)
    /\ UNCHANGED <<args, isWindows, inTmux, tmux, stdout, term, exitCode, errorCalls,
                   farewell, recv, toClient, wire, peer, damaged>>
    /\ UNCHANGED <<now, stderr, partVars>>

\* afterAction without the return at lines 58-61
afterAction_ignoresConfirm(a, act) ==
    LET a1 == IF a.Binary /\ ~act.SupportBinary
              THEN [a EXCEPT !.Binary = FALSE] ELSE a
    IN  IF a1.Directory /\ ~act.SupportDirectory
        THEN [step |-> "error", args |-> a1]
        ELSE [step |-> "config", args |-> a1]

\* afterAction without the check at lines 68-71
afterAction_noDirectoryCheck(a, act) ==
    IF ~act.Confirm THEN [step |-> "cancel", args |-> a]
    ELSE [step |-> "config",
          args |-> IF a.Binary /\ ~act.SupportBinary
                   THEN [a EXCEPT !.Binary = FALSE] ELSE a]

\* afterAction without the assignment at lines 63-66
afterAction_keepsBinary(a, act) ==
    IF ~act.Confirm THEN [step |-> "cancel", args |-> a]
    ELSE IF a.Directory /\ ~act.SupportDirectory
    THEN [step |-> "error", args |-> a]
    ELSE [step |-> "config", args |-> a]

\* lines 58-71: what recvFiles does with the action received
afterAction(a, act) ==
    IF ~act.Confirm THEN [step |-> "cancel", args |-> a]
    ELSE LET a1 == IF a.Binary /\ ~act.SupportBinary
                   THEN [a EXCEPT !.Binary = FALSE] ELSE a
         IN  IF a1.Directory /\ ~act.SupportDirectory
             THEN [step |-> "error", args |-> a1]
             ELSE [step |-> "config", args |-> a1]

recvFiles_checkAction ==
    /\ pc = "checkAction"
    /\ LET r == afterAction(args, action)
       IN  /\ args' = r.args
           /\ IF r.step = "cancel"
              THEN /\ serverExit(MsgCancelled)
                   /\ TrzMain_return
                   /\ UNCHANGED err
              ELSE IF r.step = "error"
              THEN /\ Return(newTrzszError(MsgNoDirSupport))
                   /\ UNCHANGED <<toServer, term, farewell, exitCode>>
              ELSE /\ pc' = "sendConfig"
                   /\ UNCHANGED <<err, toServer, term, farewell, exitCode>>
    /\ UNCHANGED <<isWindows, inTmux, tmux, stdout, action, phases,
                   errorCalls, recv, toClient, wire, peer, damaged>>
    /\ UNCHANGED <<now, stderr, partVars>>

\* the TransferConfig sendConfig builds
buildConfig(a, mode, width) ==
    [binary |-> a.Binary, directory |-> a.Directory,
     tmux_output_junk |-> (mode = TmuxNormalMode),
     tmux_pane_columns |-> IF mode = TmuxNormalMode THEN width ELSE 0]

recvFiles_sendConfig ==
    /\ pc = "sendConfig"
    /\ LET f == Frame("CFG", buildConfig(args, tmux.mode, tmux.width))
       IN  /\ toClient' = Append(toClient, f)
           /\ wire' = Sent("server", f)
    /\ phases' = Append(phases, "CFG")
    /\ pc' = "recvNum"
    /\ UNCHANGED <<args, isWindows, inTmux, tmux, stdout, term, exitCode, action, err,
                   errorCalls, farewell, recv, toServer, peer, damaged>>
    /\ UNCHANGED <<now, stderr, partVars>>

(***************************************************************************)
(* transfer.recvFiles: NUM, then NAME, SIZE, DATA..., MD5 for each file.   *)
(***************************************************************************)
containsString(elems, v) == \E i \in 1..Len(elems) : elems[i] = v

\* the loop over the files: r.idx files are complete
NextFile(r) ==
    /\ recv' = r
    /\ IF r.idx >= r.num
       THEN pc' = "recvExit" /\ phases' = Append(phases, "FILES")
       ELSE pc' = "recvName" /\ UNCHANGED phases

\* the file is closed: one more is complete
FileDone(r) == NextFile([r EXCEPT !.idx = r.idx + 1, !.size = 0, !.data = <<>>])

transfer_recvNum ==
    /\ pc = "recvNum"
    /\ toServer # <<>>
    /\ LET r == recvInteger(Head(toServer), "NUM")
       IN  IF r.err # nil
           THEN Return(r.err[1]) /\ UNCHANGED <<recv, toClient, wire, phases>>
           ELSE /\ Ack(Itoa(r.n))
                /\ UNCHANGED err
                /\ NextFile([recv EXCEPT !.num = r.n, !.idx = 0])
    /\ toServer' = Tail(toServer)
    /\ UNCHANGED <<args, isWindows, inTmux, tmux, stdout, term, exitCode, action,
                   errorCalls, farewell, peer, damaged>>
    /\ UNCHANGED <<now, stderr, partVars>>

\* the name the file gets in the destination directory
localNameOf(name) == name

\* "No permission to write" and "write error"
MsgNoPermission == <<78, 111, 32, 112, 101, 114, 109, 105, 115, 115, 105, 111, 110, 32, 116, 111, 32, 119, 114, 105, 116, 101>>
MsgWriteError == <<119, 114, 105, 116, 101, 32, 101, 114, 114, 111, 114>>

\* recv with the file or directory of the name created under local
named(r, local) ==
    [r EXCEPT !.name = local, !.data = <<>>, !.size = 0,
              !.localNames = IF containsString(@, local) THEN @ ELSE Append(@, local)]

\* recvFileName after the name was received: the file or the directory is
\* created, the local name is acknowledged; a directory is complete with that
recvFileName_created(local, isDir) ==
    /\ Ack(encodeString(local))
    /\ UNCHANGED err
    /\ IF isDir
       THEN FileDone(named(recv, local))
       ELSE recv' = named(recv, local) /\ pc' = "recvSize" /\ UNCHANGED phases

transfer_recvName ==
    /\ pc = "recvName"
    /\ toServer # <<>>
    /\ \E created \in BOOLEAN :
         LET f == Head(toServer)
             c == recvCheck(f, "NAME")
         IN  IF c.err # nil
             THEN Return(c.err[1]) /\ UNCHANGED <<recv, toClient, wire, phases>>
             ELSE IF ~args.Directory /\ ~decodeString(c.payload).ok
             THEN /\ Return(goError(decodeErrText))
                  /\ UNCHANGED <<recv, toClient, wire, phases>>
             ELSE IF ~created
             THEN /\ Return(newTrzszError(MsgNoPermission))
                  /\ UNCHANGED <<recv, toClient, wire, phases>>
             ELSE IF args.Directory
             THEN \* the payload is a FileRecord
                  recvFileName_created(localNameOf(c.payload.path_name[1]),
                                       c.payload.is_dir)
             ELSE recvFileName_created(localNameOf(decodeString(c.payload).data), FALSE)
    /\ toServer' = Tail(toServer)
    /\ UNCHANGED <<args, isWindows, inTmux, tmux, stdout, term, exitCode, action,
                   errorCalls, farewell, peer, damaged>>
    /\ UNCHANGED <<now, stderr, partVars>>

transfer_recvSize ==
    /\ pc = "recvSize"
    /\ toServer # <<>>
    /\ LET r == recvInteger(Head(toServer), "SIZE")
       IN  IF r.err # nil
           THEN Return(r.err[1]) /\ UNCHANGED <<recv, toClient, wire>>
           ELSE /\ Ack(Itoa(r.n))
                /\ recv' = [recv EXCEPT !.size = r.n]
                /\ pc' = IF r.n > 0 THEN "recvData" ELSE "recvMD5"
                /\ UNCHANGED err
    /\ toServer' = Tail(toServer)
    /\ UNCHANGED <<args, isWindows, inTmux, tmux, stdout, term, exitCode, action,
                   errorCalls, farewell, phases, peer, damaged>>
    /\ UNCHANGED <<now, stderr, partVars>>

\* the bytes of one DATA frame; in binary mode they travel unencoded
decodeData(binary, payload) ==
    IF binary THEN [ok |-> TRUE, data |-> payload] ELSE decodeString(payload)

encodeData(binary, chunk) == IF binary THEN chunk ELSE encodeBytes(chunk)

transfer_recvData ==
    /\ pc = "recvData"
    /\ toServer # <<>>
    /\ \E written \in BOOLEAN :
       LET c == recvCheck(Head(toServer), "DATA")
           d == decodeData(args.Binary, c.payload)
       IN  IF c.err # nil
           THEN Return(c.err[1]) /\ UNCHANGED <<recv, toClient, wire>>
           ELSE IF ~d.ok
           THEN /\ Return(goError(decodeErrText))
                /\ UNCHANGED <<recv, toClient, wire>>
           ELSE IF ~written
           THEN /\ Return(goError(MsgWriteError))
                /\ UNCHANGED <<recv, toClient, wire>>
           ELSE /\ Ack(Itoa(Len(d.data)))
                /\ recv' = [recv EXCEPT !.data = @ \o d.data]
                /\ pc' = IF Len(recv.data) + Len(d.data) < recv.size
                         THEN "recvData" ELSE "recvMD5"
                /\ UNCHANGED err
    /\ toServer' = Tail(toServer)
    /\ UNCHANGED <<args, isWindows, inTmux, tmux, stdout, term, exitCode, action,
                   errorCalls, farewell, phases, peer, damaged>>
    /\ UNCHANGED <<now, stderr, partVars>>

\* a receiver that accepts any digest
digestMatches_always(written, expectDigest) == TRUE

\* whether the digest received is the digest of the bytes written
digestMatches(written, expectDigest) == md5Sum(written) = expectDigest

transfer_recvMD5 ==
    /\ pc = "recvMD5"
    /\ toServer # <<>>
    /\ LET r == recvBinary(Head(toServer), "MD5")
       IN  IF r.err # nil
           THEN Return(r.err[1]) /\ UNCHANGED <<recv, toClient, wire, phases>>
           ELSE IF ~digestMatches(recv.data, r.data)
           THEN /\ Return(newTrzszError(MsgCheckMD5))
                /\ UNCHANGED <<recv, toClient, wire, phases>>
           ELSE /\ Ack(encodeBytes(r.data))
                /\ UNCHANGED err
                /\ FileDone(recv)
    /\ toServer' = Tail(toServer)
    /\ UNCHANGED <<args, isWindows, inTmux, tmux, stdout, term, exitCode, action,
                   errorCalls, farewell, peer, damaged>>
    /\ UNCHANGED <<now, stderr, partVars>>

recvFiles_recvExit ==
    /\ pc = "recvExit"
    /\ toServer # <<>>
    /\ LET r == recvBinary(Head(toServer), "EXIT")
       IN  IF r.err # nil
           THEN Return(r.err[1]) /\ UNCHANGED phases
           ELSE /\ pc' = "farewell"
                /\ phases' = Append(phases, "EXIT")
                /\ UNCHANGED err
    /\ toServer' = Tail(toServer)
    /\ UNCHANGED <<args, isWindows, inTmux, tmux, stdout, term, exitCode, action,
                   errorCalls, farewell, recv, toClient, wire, peer, damaged>>
    /\ UNCHANGED <<now, stderr, partVars>>

receivedSummary(localNames, path) ==
    MsgReceived \o Join(localNames, CommaSpace) \o MsgTo \o path

recvFiles_serverExit ==
    /\ pc = "farewell"
    /\ serverExit(receivedSummary(recv.localNames, DestPath))
    /\ phases' = Append(phases, "BYE")
    /\ TrzMain_return
    /\ UNCHANGED <<args, isWindows, inTmux, tmux, stdout, action, err,
                   errorCalls, recv, toClient, wire, peer, damaged>>
    /\ UNCHANGED <<now, stderr, partVars>>

\* where recvFiles waits for a frame
ReadingPcs == {"recvAction", "recvNum", "recvName", "recvSize", "recvData",
               "recvMD5", "recvExit"}

\* the read of a chunk gives up: nothing arrived within the timeout; the
\* other reads have no timeout
transfer_recvTimeout ==
    /\ pc = "recvData"
    /\ toServer = <<>>
    /\ Return(NewTrzszError(MsgTimeout, "", TRUE))
    /\ UNCHANGED <<args, isWindows, inTmux, tmux, stdout, term, exitCode, action,
                   phases, errorCalls, farewell, recv, toServer, toClient,
                   wire, peer, damaged>>
    /\ UNCHANGED <<now, stderr, partVars>>

\* the transfer was stopped (stdin closed, SIGINT, SIGTERM): the read returns
\* the error "Stopped"
transfer_recvStopped ==
    /\ pc \in ReadingPcs
    /\ Return(newTrzszError(MsgStopped))
    /\ UNCHANGED <<args, isWindows, inTmux, tmux, stdout, term, exitCode, action,
                   phases, errorCalls, farewell, recv, toServer, toClient,
                   wire, peer, damaged>>
    /\ UNCHANGED <<now, stderr, partVars>>

\* a run-time panic inside the transfer
transfer_panic ==
    /\ pc \in ReadingPcs
    /\ toServer # <<>>
    /\ pc' = "panicked"
    /\ UNCHANGED <<args, isWindows, inTmux, tmux, stdout, term, exitCode, action, err,
                   phases, errorCalls, farewell, recv, toServer, toClient,
                   wire, peer, damaged>>
    /\ UNCHANGED <<now, stderr, partVars>>

(***************************************************************************)
(* TrzMain after recvFiles: lines 156-169.                                 *)
(***************************************************************************)
TrzMain_serverError ==
    /\ pc = "serverError"
    /\ serverError(err[1])
    /\ TrzMain_return
    /\ UNCHANGED <<args, isWindows, inTmux, tmux, stdout, action, err,
                   phases, recv, peer, damaged>>
    /\ UNCHANGED <<now, stderr, partVars>>

\* the deferred recover()
TrzMain_recover ==
    /\ pc = "panicked"
    /\ serverError(NewTrzszError(MsgPanic, "panic", TRUE))
    /\ TrzMain_return
    /\ UNCHANGED <<args, isWindows, inTmux, tmux, stdout, action, err,
                   phases, recv, peer, damaged>>
    /\ UNCHANGED <<now, stderr, partVars>>

(***************************************************************************)
(* The uploading peer: it answers the marker with ACT, reads CFG, and      *)
(* sends the batch, one frame at a time, each acknowledged by SUCC.        *)
(***************************************************************************)
\* "Integer check [", "] <> [", "]" and "Binary check ["
MsgIntegerCheck == <<73, 110, 116, 101, 103, 101, 114, 32, 99, 104, 101, 99, 107, 32, 91>>
MsgCheckMid == <<93, 32, 60, 62, 32, 91>>
MsgCheckEnd == <<93>>
MsgBinaryCheck == <<66, 105, 110, 97, 114, 121, 32, 99, 104, 101, 99, 107, 32, 91>>

\* %v of a byte slice: the numbers in brackets, a blank between them
fmtBytes(b) == <<91>> \o Join([i \in 1..Len(b) |-> Itoa(b[i])], <<32>>) \o <<93>>

\* the sizes of the regular files the peer may upload
FileSizes == 0..MaxSize

\* the bytes of the file of size n, and the name of the i-th file (from 0)
fileContent(n) == [k \in 1..n |-> k]
fileName(i) == <<97 + i>>

PeerSend(f) ==
    /\ toServer' = Append(toServer, f)
    /\ wire' = Sent("peer", f)

PeerFail(e) == peer' = [peer EXCEPT !.pc = "error", !.err = <<e>>]

\* checkInteger that accepts any number
integerCheck_lenient(r, expect) == r.err

\* checkInteger: nil, or the error of a SUCC that does not echo expect
integerCheck(r, expect) ==
    IF r.err # nil THEN r.err
    ELSE IF r.n # expect
    THEN <<NewTrzszError(MsgIntegerCheck \o Itoa(r.n) \o MsgCheckMid
                         \o Itoa(expect) \o MsgCheckEnd, "", TRUE)>>
    ELSE nil

checkInteger(f, expect) == integerCheck(recvInteger(f, "SUCC"), expect)

\* checkBinary: the same for a digest
binaryCheck(r, expect) ==
    IF r.err # nil THEN r.err
    ELSE IF r.data # expect
    THEN <<NewTrzszError(MsgBinaryCheck \o fmtBytes(r.data) \o MsgCheckMid
                         \o fmtBytes(expect) \o MsgCheckEnd, "", TRUE)>>
    ELSE nil

checkBinary(f, expect) == binaryCheck(recvBinary(f, "SUCC"), expect)

Peer_sendAction ==
    /\ peer.pc = "idle"
    /\ Markers(stdout) # <<>>
    /\ \E a \in [Confirm : BOOLEAN, SupportBinary : BOOLEAN,
                 SupportDirectory : BOOLEAN] :
        /\ PeerSend(Frame("ACT", a))
        /\ peer' = [peer EXCEPT !.pc = IF a.Confirm THEN "recvConfig" ELSE "done"]
    /\ UNCHANGED <<serverVars, toClient, damaged>>
    /\ UNCHANGED <<now, stderr, partVars>>

Peer_recvConfig ==
    /\ peer.pc = "recvConfig"
    /\ toClient # <<>>
    /\ LET r == recvCheck(Head(toClient), "CFG")
       IN  IF r.err # nil THEN PeerFail(r.err[1])
           ELSE peer' = [peer EXCEPT !.pc = "sendNum", !.cfg = <<r.payload>>]
    /\ toClient' = Tail(toClient)
    /\ UNCHANGED <<serverVars, toServer, wire, damaged>>
    /\ UNCHANGED <<now, stderr, partVars>>

Peer_sendNum ==
    /\ peer.pc = "sendNum"
    /\ \E n \in 1..peer.max :
        /\ PeerSend(Frame("NUM", Itoa(n)))
        /\ peer' = [peer EXCEPT !.pc = "ackNum", !.num = n, !.idx = 0]
    /\ UNCHANGED <<serverVars, toClient, damaged>>
    /\ UNCHANGED <<now, stderr, partVars>>

Peer_ackNum ==
    /\ peer.pc = "ackNum"
    /\ toClient # <<>>
    /\ LET e == checkInteger(Head(toClient), peer.num)
       IN  IF e # nil THEN PeerFail(e[1])
           ELSE peer' = [peer EXCEPT !.pc = "sendName"]
    /\ toClient' = Tail(toClient)
    /\ UNCHANGED <<serverVars, toServer, wire, damaged>>
    /\ UNCHANGED <<now, stderr, partVars>>

\* the NAME payload: a FileRecord in directory mode, else the encoded name
namePayload(directory, idx, isDir) ==
    IF directory
    THEN [path_id |-> idx, path_name |-> <<fileName(idx)>>, is_dir |-> isDir]
    ELSE encodeString(fileName(idx))

Peer_sendName ==
    /\ peer.pc = "sendName"
    /\ \E isDir \in {FALSE} \cup {d \in {TRUE} : peer.cfg[1].directory} :
       \E size \in IF isDir THEN {0} ELSE FileSizes :
        /\ PeerSend(Frame("NAME", namePayload(peer.cfg[1].directory, peer.idx, isDir)))
        /\ peer' = [peer EXCEPT !.pc = "ackName", !.isDir = isDir,
                                !.size = size, !.off = 0, !.len = 0]
    /\ UNCHANGED <<serverVars, toClient, damaged>>
    /\ UNCHANGED <<now, stderr, partVars>>

\* after the last frame of a file: the next file, or EXIT
peerNext(p) ==
    [p EXCEPT !.idx = p.idx + 1, !.isDir = FALSE, !.size = 0, !.off = 0, !.len = 0,
              !.pc = IF p.idx + 1 >= p.num THEN "sendExit" ELSE "sendName"]

Peer_ackName ==
    /\ peer.pc = "ackName"
    /\ toClient # <<>>
    /\ LET r == recvBinary(Head(toClient), "SUCC")
       IN  IF r.err # nil THEN PeerFail(r.err[1])
           ELSE LET p == [peer EXCEPT !.names = Append(@, r.data)]
                IN  peer' = IF p.isDir THEN peerNext(p)
                            ELSE [p EXCEPT !.pc = "sendSize"]
    /\ toClient' = Tail(toClient)
    /\ UNCHANGED <<serverVars, toServer, wire, damaged>>
    /\ UNCHANGED <<now, stderr, partVars>>

\* a peer that sends SIZE without waiting for the SUCC of NAME
Peer_sendSize_unacked ==
    /\ peer.pc \in {"ackName", "sendSize"}
    /\ ~peer.isDir
    /\ PeerSend(Frame("SIZE", Itoa(peer.size)))
    /\ peer' = [peer EXCEPT !.pc = "ackSize"]
    /\ UNCHANGED <<serverVars, toClient, damaged>>
    /\ UNCHANGED <<now, stderr, partVars>>

Peer_sendSize ==
    /\ peer.pc = "sendSize"
    /\ PeerSend(Frame("SIZE", Itoa(peer.size)))
    /\ peer' = [peer EXCEPT !.pc = "ackSize"]
    /\ UNCHANGED <<serverVars, toClient, damaged>>
    /\ UNCHANGED <<now, stderr, partVars>>

Peer_ackSize ==
    /\ peer.pc = "ackSize"
    /\ toClient # <<>>
    /\ LET e == checkInteger(Head(toClient), peer.size)
       IN  IF e # nil THEN PeerFail(e[1])
           ELSE peer' = [peer EXCEPT !.pc = IF peer.size > 0 THEN "sendData"
                                            ELSE "sendMD5"]
    /\ toClient' = Tail(toClient)
    /\ UNCHANGED <<serverVars, toServer, wire, damaged>>
    /\ UNCHANGED <<now, stderr, partVars>>

Peer_sendData ==
    /\ peer.pc = "sendData"
    /\ \E n \in 1..(peer.size - peer.off) :
        LET chunk == SubSeq(fileContent(peer.size), peer.off + 1, peer.off + n)
        IN  /\ PeerSend(Frame("DATA", encodeData(peer.cfg[1].binary, chunk)))
            /\ peer' = [peer EXCEPT !.pc = "ackData", !.len = n]
    /\ UNCHANGED <<serverVars, toClient, damaged>>
    /\ UNCHANGED <<now, stderr, partVars>>

\* a sender that leaves the loop after the first chunk
Peer_ackData_oneChunk ==
    /\ peer.pc = "ackData"
    /\ toClient # <<>>
    /\ LET e == checkInteger(Head(toClient), peer.len)
       IN  IF e # nil THEN PeerFail(e[1])
           ELSE peer' = [peer EXCEPT !.off = peer.off + peer.len, !.pc = "sendMD5"]
    /\ toClient' = Tail(toClient)
    /\ UNCHANGED <<serverVars, toServer, wire, damaged>>
    /\ UNCHANGED <<now, stderr, partVars>>

Peer_ackData ==
    /\ peer.pc = "ackData"
    /\ toClient # <<>>
    /\ LET e == checkInteger(Head(toClient), peer.len)
       IN  IF e # nil THEN PeerFail(e[1])
           ELSE peer' = [peer EXCEPT
                           !.off = peer.off + peer.len,
                           !.pc = IF peer.off + peer.len < peer.size
                                  THEN "sendData" ELSE "sendMD5"]
    /\ toClient' = Tail(toClient)
    /\ UNCHANGED <<serverVars, toServer, wire, damaged>>
    /\ UNCHANGED <<now, stderr, partVars>>

Peer_sendMD5 ==
    /\ peer.pc = "sendMD5"
    /\ PeerSend(Frame("MD5", encodeBytes(md5Sum(fileContent(peer.size)))))
    /\ peer' = [peer EXCEPT !.pc = "ackMD5"]
    /\ UNCHANGED <<serverVars, toClient, damaged>>
    /\ UNCHANGED <<now, stderr, partVars>>

Peer_ackMD5 ==
    /\ peer.pc = "ackMD5"
    /\ toClient # <<>>
    /\ LET e == checkBinary(Head(toClient), md5Sum(fileContent(peer.size)))
       IN  IF e # nil THEN PeerFail(e[1])
           ELSE peer' = peerNext(peer)
    /\ toClient' = Tail(toClient)
    /\ UNCHANGED <<serverVars, toServer, wire, damaged>>
    /\ UNCHANGED <<now, stderr, partVars>>

Peer_sendExit ==
    /\ peer.pc = "sendExit"
    /\ PeerSend(Frame("EXIT", encodeString(Join(peer.names, CommaSpace))))
    /\ peer' = [peer EXCEPT !.pc = "done"]
    /\ UNCHANGED <<serverVars, toClient, damaged>>
    /\ UNCHANGED <<now, stderr, partVars>>

\* clientError: a local error is reported to trz, a remote one is not
Peer_clientError ==
    /\ peer.pc = "error"
    /\ LET e == peer.err[1]
       IN  IF echoesError(e)
           THEN PeerSend(Frame(errorFrameType(e), encodeString(e.message)))
           ELSE UNCHANGED <<toServer, wire>>
    /\ peer' = [peer EXCEPT !.pc = "done"]
    /\ UNCHANGED <<serverVars, toClient, damaged>>
    /\ UNCHANGED <<now, stderr, partVars>>

\* the peer gives up on its own: an error of its own (fail, FAIL) or a
\* request to end (EXIT)
Peer_abort ==
    /\ peer.pc \in {"sendNum", "sendName", "sendSize", "sendData", "sendMD5"}
    /\ \E type \in {"fail", "FAIL", "EXIT"} :
        PeerSend(Frame(type, encodeString(MsgStopped)))
    /\ peer' = [peer EXCEPT !.pc = "done"]
    /\ UNCHANGED <<serverVars, toClient, damaged>>
    /\ UNCHANGED <<now, stderr, partVars>>

\* the terminal damages one DATA frame on its way to trz: a byte changed,
\* or a byte lost
Terminal_damage ==
    /\ ~damaged
    /\ toServer # <<>>
    /\ Head(toServer).type = "DATA"
    /\ \E how \in {"alter", "short"} :
        LET chunk == decodeData(peer.cfg[1].binary, Head(toServer).payload).data
            bad == IF how = "alter" THEN <<0>> \o Tail(chunk)
                   ELSE SubSeq(chunk, 1, Len(chunk) - 1)
        IN  toServer' = <<Frame("DATA", encodeData(peer.cfg[1].binary, bad))>>
                        \o Tail(toServer)
    /\ damaged' = TRUE
    /\ UNCHANGED <<serverVars, toClient, wire, peer>>
    /\ UNCHANGED <<now, stderr, partVars>>

Next ==
    \/ TrzMain_Abs
    \/ TrzMain_checkPathWritable
    \/ TrzMain_checkTmux
    \/ TrzMain_writeMarker
    \/ TrzMain_MakeRaw
    \/ recvFiles_recvAction
    \/ recvFiles_checkAction
    \/ recvFiles_sendConfig
    \/ transfer_recvNum
    \/ transfer_recvName
    \/ transfer_recvSize
    \/ transfer_recvData
    \/ transfer_recvMD5
    \/ recvFiles_recvExit
    \/ recvFiles_serverExit
    \/ transfer_recvTimeout
    \/ transfer_recvStopped
    \/ transfer_panic
    \/ TrzMain_serverError
    \/ TrzMain_recover
    \/ Peer_sendAction
    \/ Peer_recvConfig
    \/ Peer_sendNum
    \/ Peer_ackNum
    \/ Peer_sendName
    \/ Peer_ackName
    \/ Peer_sendSize
    \/ Peer_ackSize
    \/ Peer_sendData
    \/ Peer_ackData
    \/ Peer_sendMD5
    \/ Peer_ackMD5
    \/ Peer_sendExit
    \/ Peer_clientError
    \/ Peer_abort
    \/ Terminal_damage

Spec == Init /\ [][Next]_vars

SpecEnv == InitEnv /\ [][Next]_vars

(***************************************************************************)
(* The functions of the package called on their own: the arguments are     *)
(* drawn when the call is made, the action is the call.                    *)
(***************************************************************************)
\* TrzMain is not running
RunIdle ==
    /\ pc = "off"
    /\ args = [Binary |-> FALSE, Directory |-> FALSE]
    /\ isWindows = FALSE
    /\ inTmux = FALSE
    /\ now = Clock2023
    /\ tmux = [mode |-> NoTmux, writer |-> "stdout", width |-> -1]
    /\ stdout = <<>>
    /\ stderr = <<>>
    /\ term = "cooked"
    /\ exitCode = 0
    /\ action = NoAction
    /\ err = nil
    /\ phases = <<>>
    /\ errorCalls = <<>>
    /\ farewell = <<>>
    /\ recv = RecvIdle
    /\ toServer = <<>>
    /\ toClient = <<>>
    /\ wire = NoFrames
    /\ peer = PeerIdle
    /\ damaged = FALSE

\* "x", a line break and the stack of the peer, "goroutine 7"
MsgRemoteStack == <<120, 10, 103, 111, 114, 111, 117, 116, 105, 110, 101, 32, 55>>

\* payloads: empty, "a", "!" (not base64), and three encoded messages
Payloads ==
    {<<>>, <<97>>, <<33>>, encodeString(<<97>>), encodeString(MsgStopped),
     encodeString(MsgRemoteStack)}

FrameTypes ==
    {"ACT", "CFG", "NUM", "NAME", "SIZE", "DATA", "MD5", "SUCC", "EXIT", "fail", "FAIL"}

ErrTypes == FrameTypes \cup {"", "panic"}

ErrorCalls ==
    [fn : {"NewTrzszError"}, message : Payloads, errType : ErrTypes, trace : BOOLEAN]

CheckCalls ==
    [fn : {"recvCheck"}, frame : [type : FrameTypes, payload : Payloads],
     expect : {"ACT", "NUM", "SUCC", "EXIT"}]

\* escape sequences: ESC [ 0 m, ESC [ 2 A, ESC c, ESC [ ? 2 5 h
EscSeqs ==
    {<<27, 91, 48, 109>>, <<27, 91, 50, 65>>, <<27, 99>>, <<27, 91, 63, 50, 53, 104>>}

\* an earlier frame, #NUM:9, echoed without its line end
EchoedFrame == <<35, 78, 85, 77, 58, 57>>

\* what stands before the frame: nothing, a prompt, the echoed frame, coloured
\* text
Junks == {<<>>, <<36, 32>>, EchoedFrame, <<27, 91, 48, 109, 120>>}

\* the frames #NUM:12 and #SUCC:eA==
FrameNum == [type |-> "NUM", text |-> <<35, 78, 85, 77, 58, 49, 50>>]
FrameSucc == [type |-> "SUCC", text |-> <<35, 83, 85, 67, 67, 58, 101, 65, 61, 61>>]

\* text with v1 put in after its first i bytes and v2 after its first k
Interleave(text, i, v1, k, v2) ==
    SubSeq(text, 1, i) \o v1 \o SubSeq(text, i + 1, k) \o v2
        \o SubSeq(text, k + 1, Len(text))

\* readLine on the bytes buf, in which the frame f was written
LineCall(f, newline, buf) ==
    [fn |-> "readLine", type |-> f.type, sent |-> f.text, newline |-> newline,
     allowJunk |-> TRUE, buf |-> buf]

\* readLine on a frame written with junk before it, the line end after it and
\* in it one escape sequence, or none
LineCallsOne(f) ==
    {LineCall(f, nl, j \o Interleave(f.text, i, v, i, <<>>) \o nl) :
       i \in 0..Len(f.text), v \in EscSeqs \cup {<<>>}, j \in Junks,
       nl \in {<<10>>, <<33, 10>>}}

\* and with two escape sequences in it
LineCallsTwo(f) ==
    {LineCall(f, <<10>>, j \o Interleave(f.text, IF i <= k THEN i ELSE k, v1,
                                         IF i <= k THEN k ELSE i, v2) \o <<10>>) :
       i \in 0..Len(f.text), k \in 0..Len(f.text), v1 \in EscSeqs,
       v2 \in {<<27, 91, 48, 109>>, <<27, 91, 50, 65>>}, j \in {<<>>, EchoedFrame}}

LineCalls == LineCallsOne(FrameNum) \cup LineCallsOne(FrameSucc) \cup LineCallsTwo(FrameNum)

\* the name "f", a name of NameMax - 1 bytes and one of NameMax + 1 bytes
NameF == <<102>>
NameLong == [k \in 1..(NameMax - 1) |-> 97]
NameTooLong == [k \in 1..(NameMax + 1) |-> 97]

\* f.0 .. f.(k-1) without f.h
Numbered(k, h) == {newName(NameF, i) : i \in (0..(k - 1)) \ {h}}

\* getNewName for "f" in directories that hold f or not, the first k numbered
\* names but one, and a symbolic link without target; and for the long names
NameCalls ==
    {[fn |-> "getNewName", name |-> NameF,
      dir |-> [files |-> base \cup Numbered(k, h), links |-> l \ (base \cup Numbered(k, h))]] :
       base \in {{}, {NameF}}, k \in {0, 1, 2, 3, ProbeLimit - 1, ProbeLimit},
       h \in {-1, 0, 1},
       l \in {{}, {NameF}, {newName(NameF, 0)}, {newName(NameF, 2)}}}
    \cup {[fn |-> "getNewName", name |-> n, dir |-> [files |-> d, links |-> {}]] :
            n \in {NameLong, NameTooLong}, d \in {{}, {NameLong}}}

\* the byte strings of up to n bytes out of a set of bytes
RECURSIVE ByteStrings(_, _)
ByteStrings(bytes, n) ==
    IF n = 0 THEN {<<>>}
    ELSE ByteStrings(bytes, n - 1)
         \cup {Append(b, x) : b \in ByteStrings(bytes, n - 1), x \in bytes}

\* bytes to encode: NUL, the line feed, "a", the last byte
ByteSample == {0, 10, 97, 255}

\* encodeBytes and then decodeString, for byte strings of up to MaxBytes bytes
CodecCalls == {[fn |-> "codec", buf |-> b] : b \in ByteStrings(ByteSample, MaxBytes)}

\* entries for the lead 0xee, for the byte 2 and for "~"
EscapeEntries ==
    {[orig |-> 238, pair |-> <<238, s>>] : s \in {238, 65}}
        \cup {[orig |-> o, pair |-> <<238, s>>] : o \in {2, 126}, s \in {49, 66, 126}}

\* the payload-safe tables of two or three of these entries
EscapeTables ==
    {t \in [1..2 -> EscapeEntries] \cup [1..3 -> EscapeEntries] : PayloadSafe(t)}

\* escape and then unescape, for the byte strings of up to MaxBytes - 1 bytes that
\* are leads, escaped bytes or second bytes of pairs
EscapeCalls ==
    {[fn |-> "escape", buf |-> b, table |-> t] :
       b \in ByteStrings({238, 2, 126, 49}, MaxBytes - 1), t \in EscapeTables}

\* numbers around the limits 1024 and 1024^3, around 2^63, and such that
\* overflow in a multiplication by 1024, 1024^2 or 1024^3: 2^54 + 1,
\* 2^54 + 1000, 2^44 + 1, 2^34 + 1, 2^33
SizeNumbers ==
    {<<48>>, <<49>>, <<53, 49, 50>>, <<49, 48, 50, 51>>, <<49, 48, 50, 52>>,
     <<48, 49, 48, 50, 52>>, <<49, 48, 50, 53>>, <<49, 48, 52, 56, 53, 55, 54>>,
     <<49, 48, 52, 56, 53, 55, 55>>, <<49, 48, 55, 51, 55, 52, 49, 56, 50, 52>>,
     <<49, 48, 55, 51, 55, 52, 49, 56, 50, 53>>,
     <<56, 53, 56, 57, 57, 51, 52, 53, 57, 50>>,
     <<49, 55, 49, 55, 57, 56, 54, 57, 49, 56, 53>>,
     <<49, 55, 53, 57, 50, 49, 56, 54, 48, 52, 52, 52, 49, 55>>,
     <<49, 56, 48, 49, 52, 51, 57, 56, 53, 48, 57, 52, 56, 49, 57, 56, 53>>,
     <<49, 56, 48, 49, 52, 51, 57, 56, 53, 48, 57, 52, 56, 50, 57, 56, 52>>,
     <<57, 50, 50, 51, 51, 55, 50, 48, 51, 54, 56, 53, 52, 55, 55, 53, 56, 48, 55>>,
     <<57, 50, 50, 51, 51, 55, 50, 48, 51, 54, 56, 53, 52, 55, 55, 53, 56, 48, 56>>,
     <<57, 57, 57, 57, 57, 57, 57, 57, 57, 57, 57, 57, 57, 57, 57, 57, 57, 57, 57, 57>>}

\* the suffixes in both cases, and what is none
SizeSuffixes ==
    {<<>>, <<98>>, <<66>>, <<107>>, <<75>>, <<107, 98>>, <<75, 66>>, <<107, 66>>,
     <<109>>, <<77>>, <<109, 98>>, <<77, 98>>, <<103>>, <<71>>, <<103, 98>>,
     <<71, 66>>, <<120>>, <<107, 107>>, <<98, 107>>, <<107, 105, 98>>, <<32>>, <<116>>}

\* texts that are no number with a suffix: empty, "k", signed, with a blank,
\* a fraction, hexadecimal, with a line feed
SizeOddTexts ==
    {<<>>, <<107>>, <<45, 49, 48, 50, 52>>, <<43, 49, 48, 50, 52>>,
     <<32, 49, 48, 50, 52>>, <<49, 46, 53, 107>>, <<48, 120, 52, 48, 48>>,
     <<49, 48, 50, 52, 10>>, <<49, 32, 107>>, <<107, 49, 48, 50, 52>>}

SizeCalls ==
    {[fn |-> "UnmarshalText", buf |-> n \o u] : n \in SizeNumbers, u \in SizeSuffixes}
        \cup {[fn |-> "UnmarshalText", buf |-> t] : t \in SizeOddTexts}

\* the frame terminators "\n" and "!\n"
LF == <<10>>
BangLF == <<33, 10>>

\* sendAction: the Newline the client announces in its ACT frame
actionNewline(windows, remoteIsWindows) ==
    IF windows \/ remoteIsWindows THEN BangLF ELSE LF

\* a client that ends its own frames as it tells the server to
clientNewline_asAnnounced(windows, remoteIsWindows) ==
    actionNewline(windows, remoteIsWindows)

\* NewTransfer and sendAction: the Newline of the client's own transferConfig,
\* "\n" unless the server is on Windows
clientNewline(windows, remoteIsWindows) ==
    IF remoteIsWindows THEN BangLF ELSE LF

\* recvAction: the Newline of the server's transferConfig is the one announced
serverNewline(announced) == announced

\* sendLine: "#" typ ":" buf and the terminator
sendLine(typ, buf, newline) == <<35>> \o typ \o <<58>> \o buf \o newline

\* the frames NUM and SUCC with the payloads 1 and 12, on every pair of platforms
NewlineCalls ==
    {[fn |-> "sendAction", windows |-> w, remoteIsWindows |-> r, typ |-> t, buf |-> b] :
        w \in BOOLEAN, r \in BOOLEAN, t \in {<<78, 85, 77>>, <<83, 85, 67, 67>>},
        b \in {<<49>>, <<49, 50>>}}

\* ESC, "[", "m", "Z" and "1"
TrimSample == {27, 91, 109, 90, 49}

\* trimVT100 for the byte strings of up to MaxBytes bytes out of these
TrimCalls == {[fn |-> "trimVT100", buf |-> b] : b \in ByteStrings(TrimSample, MaxBytes)}

\* checkTmux with TMUX set: every answer of the probe, with a pane width
\* left empty and a control mode left empty as well
TmuxCalls ==
    {[fn |-> "checkTmux", probe |-> p] :
        p \in [env : {TRUE}, cmdOk : BOOLEAN,
               tokens : TmuxAnswers \cup {<<"/dev/pts/1", "0", "">>, <<"", "", "80">>,
                                          <<"pts", "1", "80">>},
               exists : BOOLEAN, openOk : BOOLEAN]}

Calls ==
    ErrorCalls \cup CheckCalls \cup LineCalls \cup NameCalls \cup CodecCalls \cup EscapeCalls
        \cup SizeCalls \cup NewlineCalls \cup TmuxCalls \cup TrimCalls

InitCalls ==
    /\ RunIdle
    /\ ClientOff
    /\ call \in Calls
    /\ result = <<>>
    /\ BufferStart
    /\ NamesStart
    /\ SenderOff

Call_NewTrzszError ==
    /\ call.fn = "NewTrzszError"
    /\ result = <<>>
    /\ result' = <<NewTrzszError(call.message, call.errType, call.trace)>>
    /\ UNCHANGED <<runVars, clientVars, senderVars, nameVars, call, bufferVars>>

\* the client sends ACT, the server receives it; then each side writes a frame
Call_sendAction ==
    /\ call.fn = "sendAction"
    /\ result = <<>>
    /\ result' =
          <<[client |-> sendLine(call.typ, call.buf,
                                 clientNewline(call.windows, call.remoteIsWindows)),
             server |-> sendLine(call.typ, call.buf,
                                 serverNewline(actionNewline(call.windows,
                                                             call.remoteIsWindows)))]>>
    /\ UNCHANGED <<runVars, clientVars, senderVars, nameVars, call, bufferVars>>

Call_checkTmux ==
    /\ call.fn = "checkTmux"
    /\ result = <<>>
    /\ result' = <<checkTmux(call.probe)>>
    /\ UNCHANGED <<runVars, clientVars, senderVars, nameVars, call, bufferVars>>

Call_trimVT100 ==
    /\ call.fn = "trimVT100"
    /\ result = <<>>
    /\ result' = <<trimVT100(call.buf)>>
    /\ UNCHANGED <<runVars, clientVars, senderVars, nameVars, call, bufferVars>>

Call_recvCheck ==
    /\ call.fn = "recvCheck"
    /\ result = <<>>
    /\ result' = <<recvCheck(call.frame, call.expect)>>
    /\ UNCHANGED <<runVars, clientVars, senderVars, nameVars, call, bufferVars>>

Call_readLine ==
    /\ call.fn = "readLine"
    /\ result = <<>>
    /\ result' = <<readLine(call.buf, call.newline, call.allowJunk, call.type)>>
    /\ UNCHANGED <<runVars, clientVars, senderVars, nameVars, call, bufferVars>>

Call_getNewName ==
    /\ call.fn = "getNewName"
    /\ result = <<>>
    /\ result' = <<getNewName(call.dir, call.name)>>
    /\ UNCHANGED <<runVars, clientVars, senderVars, nameVars, call, bufferVars>>

Call_codec ==
    /\ call.fn = "codec"
    /\ result = <<>>
    /\ result' = <<[encoded |-> encodeBytes(call.buf),
                    decoded |-> decodeString(encodeBytes(call.buf))]>>
    /\ UNCHANGED <<runVars, clientVars, senderVars, nameVars, call, bufferVars>>

Call_escape ==
    /\ call.fn = "escape"
    /\ result = <<>>
    /\ result' = <<[escaped |-> escape(call.buf, call.table),
                    unescaped |-> unescape(escape(call.buf, call.table), call.table)]>>
    /\ UNCHANGED <<runVars, clientVars, senderVars, nameVars, call, bufferVars>>

Call_UnmarshalText ==
    /\ call.fn = "UnmarshalText"
    /\ result = <<>>
    /\ result' = <<UnmarshalText(call.buf)>>
    /\ UNCHANGED <<runVars, clientVars, senderVars, nameVars, call, bufferVars>>

NextCalls ==
    \/ Call_UnmarshalText
    \/ Call_checkTmux
    \/ Call_trimVT100
    \/ Call_codec
    \/ Call_escape
    \/ Call_NewTrzszError
    \/ Call_sendAction
    \/ Call_recvCheck
    \/ Call_readLine
    \/ Call_getNewName

SpecCalls == InitCalls /\ [][NextCalls]_vars

(***************************************************************************)
(* The stdin pump (wrapStdinInput), the signal handler                     *)
(* (handleServerSignal) and the inline buffer of the transfer, which they  *)
(* share with the state machine that reads from it.  Time is counted in    *)
(* ticks of 100 ms.                                                        *)
(***************************************************************************)
\* the bytes that arrive on stdin: 1, 2, ...
Input == [k \in 1..MaxInput |-> k]

\* the bytes of a chunk: the first n bytes of the array it was cut from
ChunkBytes(c) == SubSeq(mem[c.buffer], 1, c.n)

RECURSIVE QueuedBytes(_)
QueuedBytes(q) == IF q = <<>> THEN <<>> ELSE ChunkBytes(Head(q)) \o QueuedBytes(Tail(q))

\* push that appends whether stopped or not
addReceivedData_always(t, buf) == [t EXCEPT !.queue = Append(@, buf), !.quiet = 0]

\* push: the chunk is queued unless the transfer is stopped; the time of the
\* last input is recorded either way
addReceivedData(t, buf) ==
    IF t.stopped THEN [t EXCEPT !.quiet = 0, !.ignored = TRUE]
    ELSE [t EXCEPT !.queue = Append(@, buf), !.quiet = 0]

\* a stop that lengthens cleanTimeout on every call
stopTransferringFiles_lengthens(t) ==
    [t EXCEPT !.cleanTimeout = @ + EscalatedClean, !.stopped = TRUE]

\* stop: cleanTimeout escalated to twice the longest time of a chunk, 500 ms
\* at least, and the flag set
stopTransferringFiles(t) ==
    [t EXCEPT !.cleanTimeout = maxDuration(t.maxChunkTime * 2, EscalatedClean),
              !.stopped = TRUE]

\* one more call of stopTransferringFiles
Stop ==
    /\ transfer' = stopTransferringFiles(transfer)
    /\ stopCalls' = IF stopCalls < MaxStops THEN stopCalls + 1 ELSE stopCalls

\* the other end of stdin is closed
Stdin_close ==
    /\ ~stdin.closed
    /\ stdin' = [stdin EXCEPT !.closed = TRUE]
    /\ UNCHANGED <<runVars, clientVars, senderVars, nameVars, call, result, pump, mem, transfer, sigstop, reader, stopCalls>>

\* line 386: Read fills the buffer with the next n bytes, or reports EOF
Pump_Read ==
    /\ pump.pc = "Read"
    /\ IF stdin.pos < MaxInput
       THEN \E n \in 1..(MaxInput - stdin.pos) :
              /\ mem' = [mem EXCEPT ![pump.buffer] =
                            [k \in 1..bufSize |->
                                IF k <= n THEN Input[stdin.pos + k] ELSE @[k]]]
              /\ stdin' = [stdin EXCEPT !.pos = @ + n]
              /\ pump' = [pump EXCEPT !.pc = "add", !.n = n, !.err = "nil"]
       ELSE /\ stdin.closed
            /\ pump' = [pump EXCEPT !.pc = "stop", !.n = 0, !.err = "EOF"]
            /\ UNCHANGED <<mem, stdin>>
    /\ UNCHANGED <<runVars, clientVars, senderVars, nameVars, call, result, transfer, sigstop, reader, stopCalls>>

\* lines 387-391 without line 390: the next Read fills the same array
Pump_addReceivedData_sameBuffer ==
    /\ pump.pc = "add"
    /\ transfer' = addReceivedData(transfer, [buffer |-> pump.buffer, n |-> pump.n])
    /\ pump' = [pump EXCEPT !.pc = "Read"]
    /\ UNCHANGED <<runVars, clientVars, senderVars, nameVars, call, result, stdin, mem, sigstop, reader, stopCalls>>

\* lines 387-391: the chunk is handed over, and a new array is made
Pump_addReceivedData ==
    /\ pump.pc = "add"
    /\ transfer' = addReceivedData(transfer, [buffer |-> pump.buffer, n |-> pump.n])
    /\ pump' = [pump EXCEPT !.pc = "Read", !.buffer = @ + 1]
    /\ UNCHANGED <<runVars, clientVars, senderVars, nameVars, call, result, stdin, mem, sigstop, reader, stopCalls>>

\* lines 392-394, and the loop goes on
Pump_stopTransferringFiles ==
    /\ pump.pc = "stop"
    /\ Stop
    /\ pump' = [pump EXCEPT !.pc = "Read"]
    /\ UNCHANGED <<runVars, clientVars, senderVars, nameVars, call, result, stdin, mem, sigstop, reader>>

\* SIGINT or SIGTERM arrives: signal.Notify puts it in the channel of
\* capacity 1, or drops it when the channel is full
Signal_deliver ==
    /\ \E sig \in {"SIGINT", "SIGTERM"} :
         sigstop' = IF sigstop.ch = <<>> THEN [sigstop EXCEPT !.ch = <<sig>>]
                    ELSE sigstop
    /\ UNCHANGED <<runVars, clientVars, senderVars, nameVars, call, result, stdin, pump, mem, transfer, reader, stopCalls>>

\* a goroutine that takes the signal and does nothing
Signal_stopTransferringFiles_deaf ==
    /\ sigstop.pc = "wait"
    /\ sigstop.ch # <<>>
    /\ sigstop' = [ch |-> <<>>, pc |-> "done"]
    /\ UNCHANGED <<runVars, clientVars, senderVars, nameVars, call, result, stdin, pump, mem, transfer, reader, stopCalls>>

\* lines 401-404: the goroutine takes one signal, stops the transfer and ends
Signal_stopTransferringFiles ==
    /\ sigstop.pc = "wait"
    /\ sigstop.ch # <<>>
    /\ sigstop' = [ch |-> <<>>, pc |-> "done"]
    /\ Stop
    /\ UNCHANGED <<runVars, clientVars, senderVars, nameVars, call, result, stdin, pump, mem, reader>>

\* the state machine calls readLine or readBinary, with a timeout or without
Reader_enter ==
    /\ reader.pc \in {"idle", "returned"}
    /\ \E op \in {"readLine", "readBinary"}, timeout \in BOOLEAN :
         reader' = [pc |-> op, timeout |-> timeout, result |-> "none", wait |-> 0]
    /\ UNCHANGED <<runVars, clientVars, senderVars, nameVars, call, result, stdin, pump, mem, transfer, sigstop, stopCalls>>

\* the read returns: Stopped once the flag is set, else the bytes of the next
\* chunk; with nothing queued it waits, and gives up with Timeout if it has one
Reader_return ==
    /\ reader.pc \in {"readLine", "readBinary"}
    /\ IF transfer.stopped
       THEN reader' = [reader EXCEPT !.pc = "returned", !.result = "Stopped"]
            /\ UNCHANGED transfer
       ELSE IF transfer.queue # <<>>
       THEN /\ transfer' = [transfer EXCEPT
                              !.taken = @ \o ChunkBytes(Head(transfer.queue)),
                              !.queue = Tail(@)]
            /\ reader' = [reader EXCEPT !.pc = "returned", !.result = "ok"]
       ELSE /\ reader.timeout
            /\ reader' = [reader EXCEPT !.pc = "returned", !.result = "Timeout"]
            /\ UNCHANGED transfer
    /\ UNCHANGED <<runVars, clientVars, senderVars, nameVars, call, result, stdin, pump, mem, sigstop, stopCalls>>

\* recvFileData after the chunk it read is written and acknowledged: the
\* time the chunk took is the longest so far
Reader_chunkTimed ==
    /\ reader.pc = "returned"
    /\ reader.result = "ok"
    /\ transfer.maxChunkTime < LongChunk
    /\ transfer' = [transfer EXCEPT !.maxChunkTime = LongChunk]
    /\ UNCHANGED <<runVars, clientVars, senderVars, nameVars, call, result, stdin, pump, mem, sigstop, reader, stopCalls>>

\* 100 ms pass without input; the time since the last input is read by the
\* loop of cleanInput only, and is counted while the loop runs
Clock_tick ==
    /\ reader.pc \in {"cleanInput", "serverExit"}
    /\ transfer.quiet < reader.wait
    /\ transfer' = [transfer EXCEPT !.quiet = @ + 1]
    /\ UNCHANGED <<runVars, clientVars, senderVars, nameVars, call, result, stdin, pump, mem, sigstop, reader, stopCalls>>

\* cleanInput(timeoutDuration) up to its loop: no more bytes are accepted, what
\* is queued is dropped, the time of the last input is set to now; the loop
\* then waits until no input has arrived for timeoutDuration
cleanInput(t) == [t EXCEPT !.stopped = TRUE, !.queue = <<>>, !.quiet = 0]

\* serverError begins with cleanInput(t.cleanTimeout)
Reader_cleanInput ==
    /\ reader.pc \in {"idle", "returned"}
    /\ transfer' = cleanInput(transfer)
    /\ reader' = [reader EXCEPT !.pc = "cleanInput", !.wait = transfer.cleanTimeout]
    /\ UNCHANGED <<runVars, clientVars, senderVars, nameVars, call, result, stdin, pump, mem, sigstop, stopCalls>>

\* serverExit, called by recvFiles or at the end of serverError, when its
\* cleanInput has returned: it begins with cleanInput(500 ms)
Reader_serverExit ==
    /\ \/ reader.pc \in {"idle", "returned"}
       \/ reader.pc = "cleanInput" /\ transfer.quiet >= reader.wait
    /\ transfer' = cleanInput(transfer)
    /\ reader' = [reader EXCEPT !.pc = "serverExit", !.wait = EscalatedClean]
    /\ UNCHANGED <<runVars, clientVars, senderVars, nameVars, call, result, stdin, pump, mem, sigstop, stopCalls>>

\* a serverExit that does not wait
Reader_restore_atOnce ==
    /\ reader.pc = "serverExit"
    /\ reader' = [reader EXCEPT !.pc = "restored"]
    /\ UNCHANGED <<runVars, clientVars, senderVars, nameVars, call, result, stdin, pump, mem, transfer, sigstop, stopCalls>>

\* the cleanInput of serverExit returns when no input has arrived for its
\* timeoutDuration; the terminal is restored
Reader_restore ==
    /\ reader.pc = "serverExit"
    /\ transfer.quiet >= reader.wait
    /\ reader' = [reader EXCEPT !.pc = "restored"]
    /\ UNCHANGED <<runVars, clientVars, senderVars, nameVars, call, result, stdin, pump, mem, transfer, sigstop, stopCalls>>

InitBuffer ==
    /\ RunIdle
    /\ PartsIdle

Pump ==
    \/ Pump_Read
    \/ Pump_addReceivedData
    \/ Pump_stopTransferringFiles

NextBuffer ==
    \/ Stdin_close
    \/ Pump
    \/ Signal_deliver
    \/ Signal_stopTransferringFiles
    \/ Reader_enter
    \/ Reader_return
    \/ Reader_chunkTimed
    \/ Clock_tick
    \/ Reader_cleanInput
    \/ Reader_serverExit
    \/ Reader_restore

SpecBuffer == InitBuffer /\ [][NextBuffer]_vars

\* the goroutines are scheduled, and a read that can return does
SpecBufferFair ==
    /\ SpecBuffer
    /\ WF_vars(Pump)
    /\ WF_vars(Signal_stopTransferringFiles)
    /\ WF_vars(Reader_return)

(***************************************************************************)
(* The receiver of a directory batch naming the records it receives.       *)
(***************************************************************************)
\* the names "d" and "a"
NameD == <<100>>
NameA == <<97>>

\* the records of the batch: each root is a directory d, given on the command
\* line from another place, with a file a in it
FileRecords ==
    {[path_id |-> p, rel_path |-> r.path, is_dir |-> r.dir] :
       p \in 0..(MaxFiles - 1),
       r \in {[path |-> <<NameD>>, dir |-> TRUE], [path |-> <<NameD, NameA>>, dir |-> FALSE]}}

\* the map m with p mapped to name
withName(m, p, name) == [q \in DOMAIN m \cup {p} |-> IF q = p THEN name ELSE m[q]]

\* the local root name that probes again for every record
localRootName_probesAgain(n, dir, record) ==
    IF n.overwrite THEN [name |-> record.rel_path[1], err |-> nil]
    ELSE getNewName(dir, record.rel_path[1])

\* the local name of the root of a record: with overwrite rel_path[0];
\* otherwise the one stored for its path_id, and for the first record of a
\* path_id rel_path[0] put through getNewName
localRootName(n, dir, record) ==
    IF n.overwrite THEN [name |-> record.rel_path[1], err |-> nil]
    ELSE IF record.path_id \in DOMAIN n.fileNameMap
    THEN [name |-> n.fileNameMap[record.path_id], err |-> nil]
    ELSE getNewName(dir, record.rel_path[1])

\* the receiver after a record whose root name came out as root: without
\* overwrite the name is stored for the path_id
placedUnder(n, record, root) ==
    IF root.err # nil THEN [n EXCEPT !.err = root.err]
    ELSE [n EXCEPT !.fileNameMap = IF n.overwrite THEN @
                                   ELSE withName(@, record.path_id, root.name),
                   !.placed = Append(@, [path_id |-> record.path_id,
                                         rel_path |-> record.rel_path,
                                         root |-> root.name])]

\* the directory after it: the root is there
createdIn(dir, root) ==
    IF root.err # nil THEN dir
    ELSE [files |-> dir.files \cup {root.name}, links |-> dir.links \ {root.name}]

\* the receiver takes the NAME frame of a record and creates what it names
Recv_createDirOrFile ==
    /\ naming.err = nil
    /\ Len(naming.placed) < MaxRecords
    /\ \E record \in FileRecords :
          /\ naming' = placedUnder(naming, record, localRootName(naming, destDir, record))
          /\ destDir' = createdIn(destDir, localRootName(naming, destDir, record))
    /\ UNCHANGED <<runVars, clientVars, senderVars, call, result, bufferVars>>

\* another process creates a file in the directory
Dest_create ==
    /\ \E name \in {NameD, newName(NameD, 0), newName(NameD, 1)} \ destDir.files :
          destDir' = [destDir EXCEPT !.files = @ \cup {name}]
    /\ UNCHANGED <<runVars, clientVars, senderVars, call, result, bufferVars, naming>>

InitNames ==
    /\ RunIdle
    /\ ClientOff
    /\ call = NoCall
    /\ result = <<>>
    /\ BufferStart
    /\ destDir \in {[files |-> f, links |-> {}] : f \in SUBSET {NameD, newName(NameD, 0)}}
    /\ naming \in {[overwrite |-> o, fileNameMap |-> <<>>, placed |-> <<>>, err |-> nil] :
                     o \in BOOLEAN}
    /\ SenderOff

NextNames ==
    \/ Recv_createDirOrFile
    \/ Dest_create

SpecNames == InitNames /\ [][NextNames]_vars

(***************************************************************************)
(* The sender walking the paths it was given.  The files do not change     *)
(* during the walk; fs holds of them what the walk has seen so far, and    *)
(* what it sees for the first time is any of the things it can find.  A    *)
(* file is a number: two paths lead to the same file through a symbolic    *)
(* link or a second name, and the real path of a directory is its number.  *)
(***************************************************************************)
NameSub == <<115, 117, 98>>

\* the base names of the paths given, and the names in the directories
RootNames == {NameD, NameF}
EntryNames == {NameSub, NameF}

\* what os.Stat finds: a regular file one may read or not, a file that is
\* neither regular nor a directory, a directory, and directories for which
\* os.Open, Readdir or filepath.EvalSymlinks fails
DirKinds == {"dir", "lockeddir", "unlistable", "unresolvable"}
NodeKinds == {"file", "unreadable", "special"} \cup DirKinds

\* a file seen for the first time
newNode(kind) == [kind |-> kind, read |-> FALSE, names |-> {}, target |-> <<>>]

\* the texts of the errors, each followed by the path
WalkMsg(what) ==
    CASE what = "nofile" -> <<78, 111, 32, 115, 117, 99, 104, 32, 102, 105, 108, 101, 58, 32>>
      [] what = "isdir" ->
            <<73, 115, 32, 97, 32, 100, 105, 114, 101, 99, 116, 111, 114, 121, 58, 32>>
      [] what = "special" ->
            <<78, 111, 116, 32, 97, 32, 114, 101, 103, 117, 108, 97, 114, 32, 102, 105, 108,
              101, 58, 32>>
      [] what = "unreadable" ->
            <<78, 111, 32, 112, 101, 114, 109, 105, 115, 115, 105, 111, 110, 32, 116, 111, 32,
              114, 101, 97, 100, 58, 32>>
      [] what = "link" ->
            <<68, 117, 112, 108, 105, 99, 97, 116, 101, 32, 108, 105, 110, 107, 58, 32>>
      [] what = "lockeddir" -> <<79, 112, 101, 110, 32, 101, 114, 114, 111, 114, 58, 32>>
      [] what = "unlistable" ->
            <<82, 101, 97, 100, 100, 105, 114, 32, 101, 114, 114, 111, 114, 58, 32>>
      [] what = "name" ->
            <<68, 117, 112, 108, 105, 99, 97, 116, 101, 32, 110, 97, 109, 101, 58, 32>>

\* the path with the segments relPath, below the place of the roots
pathOf(relPath) == Join(relPath, <<47>>)

\* newTrzszError(fmt.Sprintf("...: %s", path))
walkError(what, relPath) == <<newTrzszError(WalkMsg(what) \o pathOf(relPath))>>

\* the error of the operating system for a path: not a TrzszError
osError(relPath) == <<[message |-> pathOf(relPath), errType |-> "os", trace |-> FALSE]>>

\* a TrzszFile for the files only
TrzszFile_filesOnly(pathID, relPath, isDir) ==
    [PathID |-> pathID, RelPath |-> relPath, IsDir |-> FALSE]

TrzszFile(pathID, relPath, isDir) ==
    [PathID |-> pathID, RelPath |-> relPath, IsDir |-> isDir]

\* what a path leads to: a file seen before, or one more file of any kind
Found ==
    {[node |-> k, kind |-> fs[k].kind] : k \in 1..Len(fs)}
        \cup {[node |-> Len(fs) + 1, kind |-> kind] :
                kind \in IF Len(fs) < MaxNodes THEN NodeKinds ELSE {}}

\* fs with what was found in it
fsWith(c) == IF c.node > Len(fs) THEN Append(fs, newNode(c.kind)) ELSE fs

\* the return of an error together with the list made so far
failed_withList(w, e) == [w EXCEPT !.pc = "returned", !.err = e, !.result = <<w.list>>]

\* checkPathsReadable and checkPathReadable return the error e: no list
failed(w, e) == [w EXCEPT !.pc = "returned", !.err = e, !.result = <<>>]

\* checkPathReadable returns nil: to the loop that called it
returned(w) ==
    IF w.stack = <<>> THEN [w EXCEPT !.pc = "root", !.i = @ + 1]
    ELSE [w EXCEPT !.pc = "entries"]

\* the walk with what its next path turned out to be: the base name of the
\* path and the file it leads to, 0 if to none, -1 if os.Stat fails otherwise
withPath(w, name, node) == [w EXCEPT !.paths = Append(@, [name |-> name, node |-> node])]

\* lines 270-288: the next path is looked up and checkPathReadable called
\* for it, with a visitedDir of its own
Walk_Stat_path ==
    /\ walk.pc = "root"
    /\ walk.i < walk.n
    /\ \E name \in RootNames :
          \/ /\ walk' = failed(withPath(walk, name, 0), walkError("nofile", <<name>>))
             /\ UNCHANGED fs
          \/ /\ walk' = failed(withPath(walk, name, -1), osError(<<name>>))
             /\ UNCHANGED fs
          \/ \E c \in Found :
                /\ fs' = fsWith(c)
                /\ walk' = IF ~walk.directory /\ c.kind \in DirKinds
                           THEN failed(withPath(walk, name, c.node),
                                       walkError("isdir", <<name>>))
                           ELSE [withPath(walk, name, c.node) EXCEPT
                                    !.visited = {}, !.pc = "check",
                                    !.cur = [node |-> c.node, relPath |-> <<name>>]]
    /\ UNCHANGED <<runVars, clientVars, call, result, bufferVars, nameVars, sending>>

\* line 290: all paths are walked
Walk_return_list ==
    /\ walk.pc = "root"
    /\ walk.i = walk.n
    /\ walk' = [walk EXCEPT !.pc = "returned", !.result = <<walk.list>>]
    /\ UNCHANGED <<runVars, clientVars, call, result, bufferVars, nameVars, sending, fs>>

\* lines 226-235: checkPathReadable for what is no directory
checkFile(w, kind) ==
    IF kind = "special" THEN failed(w, walkError("special", w.cur.relPath))
    ELSE IF kind = "unreadable" THEN failed(w, walkError("unreadable", w.cur.relPath))
    ELSE returned([w EXCEPT !.list = Append(@, TrzszFile(w.i, w.cur.relPath, FALSE))])

\* lines 240-241 left out: a directory is entered however often it is reached
checkDir_noVisited(w, kind, names) ==
    IF kind = "unresolvable" THEN failed(w, osError(w.cur.relPath))
    ELSE IF kind = "lockeddir" THEN failed(w, walkError("lockeddir", w.cur.relPath))
    ELSE IF kind = "unlistable"
    THEN failed([w EXCEPT !.opened = @ + 1], walkError("unlistable", w.cur.relPath))
    ELSE [w EXCEPT !.visited = @ \cup {w.cur.node},
                   !.opened = @ + 1,
                   !.list = Append(@, TrzszFile(w.i, w.cur.relPath, TRUE)),
                   !.stack = Append(@, [node |-> w.cur.node, relPath |-> w.cur.relPath,
                                        pending |-> names]),
                   !.pc = "entries"]

\* lines 236-252: checkPathReadable for a directory that holds names, up to
\* the loop over them; os.Open has opened one more file when it succeeds
checkDir(w, kind, names) ==
    IF kind = "unresolvable" THEN failed(w, osError(w.cur.relPath))
    ELSE IF w.cur.node \in w.visited THEN failed(w, walkError("link", w.cur.relPath))
    ELSE IF kind = "lockeddir" THEN failed(w, walkError("lockeddir", w.cur.relPath))
    ELSE IF kind = "unlistable"
    THEN failed([w EXCEPT !.opened = @ + 1], walkError("unlistable", w.cur.relPath))
    ELSE [w EXCEPT !.visited = @ \cup {w.cur.node},
                   !.opened = @ + 1,
                   !.list = Append(@, TrzszFile(w.i, w.cur.relPath, TRUE)),
                   !.stack = Append(@, [node |-> w.cur.node, relPath |-> w.cur.relPath,
                                        pending |-> names]),
                   !.pc = "entries"]

\* the names Readdir returns for a directory: those it returned before, any
\* if it is read for the first time
Listings(node) ==
    IF fs[node].read THEN {fs[node].names} ELSE SUBSET EntryNames

Walk_checkPathReadable ==
    /\ walk.pc = "check"
    /\ IF fs[walk.cur.node].kind \notin DirKinds
       THEN /\ walk' = checkFile(walk, fs[walk.cur.node].kind)
            /\ UNCHANGED fs
       ELSE \E names \in Listings(walk.cur.node) :
               /\ walk' = checkDir(walk, fs[walk.cur.node].kind, names)
               /\ fs' = IF walk'.pc = "entries"
                        THEN [fs EXCEPT ![walk.cur.node].read = TRUE,
                                        ![walk.cur.node].names = names]
                        ELSE fs
    /\ UNCHANGED <<runVars, clientVars, call, result, bufferVars, nameVars, sending>>

\* the call of checkPathReadable that is innermost
Top(stack) == stack[Len(stack)]

\* what os.Stat finds for the entry name of a directory: what it found
\* before; the first time anything, or nothing (0: a link without target)
Targets(node, name) ==
    IF name \in DOMAIN fs[node].target
    THEN {[node |-> fs[node].target[name],
           kind |-> IF fs[node].target[name] = 0 THEN "none"
                    ELSE fs[fs[node].target[name]].kind]}
    ELSE Found \cup {[node |-> 0, kind |-> "none"]}

\* lines 253-263: os.Stat for an entry, in the order Readdir gave, which is
\* any, and checkPathReadable called for it
Walk_Stat_entry ==
    /\ walk.pc = "entries"
    /\ Top(walk.stack).pending # {}
    /\ \E name \in Top(walk.stack).pending :
          \E c \in Targets(Top(walk.stack).node, name) :
             /\ fs' = [fsWith(c) EXCEPT
                          ![Top(walk.stack).node].target = withName(@, name, c.node)]
             /\ walk' = IF c.node = 0
                        THEN failed(walk, osError(Append(Top(walk.stack).relPath, name)))
                        ELSE [walk EXCEPT
                                 !.stack[Len(walk.stack)].pending = @ \ {name},
                                 !.cur = [node |-> c.node,
                                          relPath |-> Append(Top(walk.stack).relPath, name)],
                                 !.pc = "check"]
    /\ UNCHANGED <<runVars, clientVars, call, result, bufferVars, nameVars, sending>>

\* line 266: the entries of a directory are done
Walk_return ==
    /\ walk.pc = "entries"
    /\ Top(walk.stack).pending = {}
    /\ walk' = returned([walk EXCEPT !.stack = SubSeq(@, 1, Len(@) - 1)])
    /\ UNCHANGED <<runVars, clientVars, call, result, bufferVars, nameVars, sending, fs>>

\* the places in list whose joined RelPath stands at an earlier place too
Repeats(list) ==
    {j \in 1..Len(list) :
       \E i \in 1..(j - 1) : pathOf(list[i].RelPath) = pathOf(list[j].RelPath)}

\* the error for the place j of list, nil for 0
duplicateAt(list, j) ==
    IF j = 0 THEN nil ELSE walkError("name", list[j].RelPath)

\* checkDuplicateNames that finds nothing
checkDuplicateNames_blind(list) == nil

checkDuplicateNames(list) == duplicateAt(list, Min0(Repeats(list)))

\* the list that was returned is checked for duplicate names
Walk_checkDuplicateNames ==
    /\ walk.pc = "returned"
    /\ walk.err = nil
    /\ walk' = [walk EXCEPT !.pc = "batch", !.err = checkDuplicateNames(walk.result[1])]
    /\ UNCHANGED <<runVars, clientVars, call, result, bufferVars, nameVars, sending, fs>>

\* checkPathsReadable(paths, directory) is called with one path or more
InitWalk ==
    /\ RunIdle
    /\ ClientOff
    /\ call = NoCall
    /\ result = <<>>
    /\ BufferStart
    /\ NamesStart
    /\ sending = [pc |-> "off"]
    /\ fs = <<>>
    /\ walk \in {[pc |-> "root", directory |-> d, n |-> n, i |-> 0, paths |-> <<>>,
                  stack |-> <<>>,
                  cur |-> [node |-> 0, relPath |-> <<>>], list |-> <<>>, visited |-> {},
                  err |-> nil, result |-> <<>>, opened |-> 0, closed |-> 0] :
                   d \in BOOLEAN, n \in 1..MaxFiles}

NextWalk ==
    \/ Walk_Stat_path
    \/ Walk_return_list
    \/ Walk_checkPathReadable
    \/ Walk_Stat_entry
    \/ Walk_return
    \/ Walk_checkDuplicateNames

SpecWalk == InitWalk /\ [][NextWalk]_vars

\* checkPathsReadable is called with one path, directories allowed: the walk
\* of one tree
InitTree ==
    /\ InitWalk
    /\ walk.n = 1
    /\ walk.directory

\* the file f of a call of checkPathReadable is not used after Readdir and
\* never closed by the walk: the garbage collector may run its finalizer,
\* which closes it, at any time from then on, or not at all
Walk_finalize ==
    /\ walk.pc # "off"
    /\ walk.closed < walk.opened
    /\ walk' = [walk EXCEPT !.closed = @ + 1]
    /\ UNCHANGED <<runVars, clientVars, call, result, bufferVars, nameVars, sending, fs>>

NextHandles ==
    \/ NextWalk
    \/ Walk_finalize

\* the walk of one tree, and the garbage collector
SpecHandles == InitTree /\ [][NextHandles]_vars

\* the walk of one tree goes on
SpecTreeFair == InitTree /\ [][NextWalk]_vars /\ WF_vars(NextWalk)

(***************************************************************************)
(* The sender sending the data of one file: sendFileData.  The chunk grows *)
(* while the chunks are acknowledged fast and shrinks when one is slow.    *)
(* Times are in milliseconds.                                              *)
(***************************************************************************)

\* the chunks one run of the loop sends at most
MaxChunks == 15

KiB == 1024

MiB == 1024 * 1024

\* NewTransfer: MaxBufSize is 10 MiB until a configuration says otherwise
DefaultMaxBufSize == 10 * MiB

\* the sizes BufferSize.UnmarshalText lets through: 1 KiB, 10 MiB, 1 GiB
MaxBufSizes == {KiB, DefaultMaxBufSize, 1024 * MiB}

\* the sizes of the files sent: empty, less than a chunk, a few chunks, many
SendSizes == {0, 1000, 5000, 48 * MiB}

\* what one chunk took, from the read to the SUCC
ChunkTimes == {20, 499, 500, 1999, 2000}

minInt64(a, b) == IF a < b THEN a ELSE b

\* a chunk that doubles and is not held to MaxBufSize
grown_unclamped(size, max) == size * 2

\* bufSize = minInt64(bufSize*2, t.transferConfig.MaxBufSize)
grown(size, max) == minInt64(size * 2, max)

\* whether a chunk of length bytes that took chunkTime doubles the buffer
doubles(size, length, chunkTime, max) ==
    length = size /\ chunkTime < 500 /\ size < max

\* a sender that falls back to 1 KiB after any chunk that did not double
nextBufSize_resetsWhenSlow(size, length, chunkTime, max) ==
    IF doubles(size, length, chunkTime, max)
    THEN grown(size, max)
    ELSE IF chunkTime >= 500 /\ size > KiB THEN KiB ELSE size

\* the size of the next chunk after one of length bytes that took chunkTime
nextBufSize(size, length, chunkTime, max) ==
    IF length = size /\ chunkTime < 500 /\ size < max
    THEN grown(size, max)
    ELSE IF chunkTime >= 2000 /\ size > KiB THEN KiB ELSE size

\* file.Read(buffer) of a regular file: the buffer full, or what is left
readLength(s) == minInt64(s.bufSize, s.size - s.step)

\* one turn of the loop: a chunk is read, sent and acknowledged
sendFileData_chunk ==
    /\ sending.pc = "loop"
    /\ sending.step < sending.size
    /\ sending.chunks < MaxChunks
    /\ \E chunkTime \in ChunkTimes :
          sending' = [sending EXCEPT
              !.step = @ + readLength(sending),
              !.chunks = @ + 1,
              !.steady = @ /\ readLength(sending) = sending.bufSize /\ chunkTime < 500,
              !.bufSize = nextBufSize(@, readLength(sending), chunkTime, sending.max),
              !.last = [buf |-> sending.bufSize, len |-> readLength(sending),
                        time |-> chunkTime],
              !.maxChunkTime = maxDuration(@, chunkTime)]
    /\ UNCHANGED <<runVars, clientVars, call, result, bufferVars, nameVars, walkVars>>

\* the read, the write or the check of the SUCC fails
sendFileData_fail ==
    /\ sending.pc = "loop"
    /\ sending.step < sending.size
    /\ sending' = [sending EXCEPT !.pc = "failed"]
    /\ UNCHANGED <<runVars, clientVars, call, result, bufferVars, nameVars, walkVars>>

\* step has reached size: the digest is returned
sendFileData_return ==
    /\ sending.pc = "loop"
    /\ sending.step >= sending.size
    /\ sending' = [sending EXCEPT !.pc = "sent"]
    /\ UNCHANGED <<runVars, clientVars, call, result, bufferVars, nameVars, walkVars>>

\* sendFileData is called for a file of some size
InitSend ==
    /\ RunIdle
    /\ ClientOff
    /\ call = NoCall
    /\ result = <<>>
    /\ BufferStart
    /\ NamesStart
    /\ WalkOff
    /\ sending \in {[pc |-> "loop", size |-> size, max |-> max, bufSize |-> KiB,
                     step |-> 0, chunks |-> 0, steady |-> TRUE, maxChunkTime |-> 0,
                     last |-> [buf |-> 0, len |-> 0, time |-> 0]] :
                      size \in SendSizes, max \in MaxBufSizes}

NextSend ==
    \/ sendFileData_chunk
    \/ sendFileData_fail
    \/ sendFileData_return

SpecSend == InitSend /\ [][NextSend]_vars

(***************************************************************************)
(* The text progress bar, driven as progress_test.go drives it: onNum,     *)
(* onName, then for each file onSize, onStep and onDone, with the clock    *)
(* that mockTimeNow installs.  Times are milliseconds after the first      *)
(* value of the mocked clock.                                              *)
(***************************************************************************)
\* the time between two readings of the mocked clock
ClockGaps == {0, 1, 98, 1000}

\* the refresh interval: more than the 98 ms of TestProgressReduceOutput, at
\* most the second of TestProgressNewestSpeed
RefreshIntervals == {99, 200, 1000}

\* timeNowFunc(): the next value of the clock, gap after the last one
timeNow(p, gap) == [p EXCEPT !.clock = @ + gap, !.reads = @ + 1]

\* a bar that writes a line at every step
lineDue_always(p) == TRUE

\* whether a progress line is due at p.clock: none was written yet, or the
\* last one is a refresh interval old
lineDue(p) == p.last = -1 \/ p.clock - p.last >= p.interval

\* the progress lines among what was written
Lines(w) == SelectSeq(w, LAMBDA x : x.kind = "line")

InitProgress ==
    /\ RunIdle
    /\ call = NoCall
    /\ result = <<>>
    /\ BufferStart
    /\ NamesStart
    /\ SenderOff
    /\ pty = [pc |-> "off"]
    /\ progress \in {[pc |-> "new", interval |-> i, clock |-> 0, reads |-> 0,
                       calls |-> 0, sizes |-> 0, steps |-> 0, dones |-> 0,
                       last |-> -1, writes |-> <<>>] : i \in RefreshIntervals}

Progress_onNum ==
    /\ progress.pc = "new"
    /\ progress' = [progress EXCEPT !.pc = "num"]
    /\ UNCHANGED <<runVars, call, result, bufferVars, nameVars, senderVars, pty>>

Progress_onName ==
    /\ progress.pc \in {"num", "done"}
    /\ progress' = [progress EXCEPT !.pc = "named"]
    /\ UNCHANGED <<runVars, call, result, bufferVars, nameVars, senderVars, pty>>

\* onSize reads the clock: the time the file starts
Progress_onSize ==
    /\ progress.pc = "named"
    /\ progress.calls < MaxCalls
    /\ \E gap \in ClockGaps :
          progress' = [timeNow(progress, gap) EXCEPT !.pc = "sized", !.calls = @ + 1,
                                                     !.sizes = @ + 1]
    /\ UNCHANGED <<runVars, call, result, bufferVars, nameVars, senderVars, pty>>

\* onStep reads the clock and writes the line if it is due
Progress_onStep ==
    /\ progress.pc = "sized"
    /\ progress.calls < MaxCalls
    /\ \E gap \in ClockGaps :
          LET p == timeNow(progress, gap)
          IN  progress' =
                 [p EXCEPT !.calls = @ + 1, !.steps = @ + 1,
                           !.writes = IF lineDue(p)
                                      THEN Append(@, [kind |-> "line", at |-> p.clock])
                                      ELSE @,
                           !.last = IF lineDue(p) THEN p.clock ELSE @]
    /\ UNCHANGED <<runVars, call, result, bufferVars, nameVars, senderVars, pty>>

\* onDone writes the carriage return that ends the file's line
Progress_onDone ==
    /\ progress.pc = "sized"
    /\ progress.calls < MaxCalls
    /\ progress' = [progress EXCEPT !.pc = "done", !.calls = @ + 1, !.dones = @ + 1,
                                    !.writes = Append(@, [kind |-> "done",
                                                          at |-> progress.clock])]
    /\ UNCHANGED <<runVars, call, result, bufferVars, nameVars, senderVars, pty>>

NextProgress ==
    \/ Progress_onNum
    \/ Progress_onName
    \/ Progress_onSize
    \/ Progress_onStep
    \/ Progress_onDone

SpecProgress == InitProgress /\ [][NextProgress]_vars

(***************************************************************************)
(* A TrzszPty after Spawn (pty_unix.go): two goroutines call Close and     *)
(* Resize on it, and the goroutine Spawn started calls Resize for every    *)
(* signal it receives from ch.  A goroutine is where its call stands; the  *)
(* mutex is the name of the goroutine that holds it.                       *)
(***************************************************************************)
Callers == {"main", "other"}

PtyThreads == Callers \cup {"loop"}

\* Spawn has returned: SIGWINCH is in the channel, OnResize was called or not
InitPty ==
    /\ RunIdle
    /\ call = NoCall
    /\ result = <<>>
    /\ BufferStart
    /\ NamesStart
    /\ SenderOff
    /\ progress = [pc |-> "off"]
    /\ pty \in {[pc |-> "on", mutex |-> "", closed |-> FALSE, ch |-> 1,
                  chClosed |-> 0, ptmxClosed |-> 0, resize |-> cb, called |-> 0,
                  stale |-> FALSE, signals |-> 0, calls |-> 0, closes |-> 0,
                  th |-> [t \in PtyThreads |->
                            [pc |-> "idle", late |-> FALSE, ret |-> "none"]]] :
                    cb \in BOOLEAN}

PtyOthers == <<runVars, call, result, bufferVars, nameVars, senderVars, progress>>

\* goroutine t goes on at the place to
Goto(p, t, to) == [p EXCEPT !.th[t].pc = to]

\* a goroutine calls Close
Pty_Close_call(t) ==
    /\ t \in Callers
    /\ pty.th[t].pc = "idle"
    /\ pty.calls < MaxCalls
    /\ pty' = [Goto(pty, t, "Close.Lock") EXCEPT !.calls = @ + 1, !.th[t].ret = "none"]
    /\ UNCHANGED PtyOthers

\* a goroutine calls Resize; late: a call of Close has returned before
Pty_Resize_call(t) ==
    /\ t \in Callers
    /\ pty.th[t].pc = "idle"
    /\ pty.calls < MaxCalls
    /\ pty' = [Goto(pty, t, "Resize.Lock") EXCEPT !.calls = @ + 1, !.th[t].ret = "none",
                                                  !.th[t].late = pty.closes > 0]
    /\ UNCHANGED PtyOthers

\* signal.Notify: a SIGWINCH is put into the channel unless it is full
Pty_signal ==
    /\ pty.pc = "on"
    /\ pty.chClosed = 0
    /\ pty.ch = 0
    /\ pty.signals < MaxSignals
    /\ pty' = [pty EXCEPT !.ch = 1, !.signals = @ + 1]
    /\ UNCHANGED PtyOthers

\* for range ch: a signal is received and Resize is called
Pty_loop_receive ==
    /\ pty.pc = "on"
    /\ pty.th["loop"].pc = "idle"
    /\ pty.ch > 0
    /\ pty' = [Goto(pty, "loop", "Resize.Lock") EXCEPT !.ch = @ - 1,
                                                       !.th["loop"].ret = "none",
                                                       !.th["loop"].late = pty.closes > 0]
    /\ UNCHANGED PtyOthers

\* for range ch: the channel is closed and empty
Pty_loop_exit ==
    /\ pty.pc = "on"
    /\ pty.th["loop"].pc = "idle"
    /\ pty.ch = 0
    /\ pty.chClosed > 0
    /\ pty' = Goto(pty, "loop", "exited")
    /\ UNCHANGED PtyOthers

\* t.mutex.Lock()
Pty_Lock(t) ==
    /\ pty.pc = "on"
    /\ pty.th[t].pc \in {"Close.Lock", "Resize.Lock"}
    /\ pty.mutex = ""
    /\ pty' = [Goto(pty, t, IF pty.th[t].pc = "Close.Lock" THEN "Close.check"
                             ELSE "Resize.check")
                  EXCEPT !.mutex = t]
    /\ UNCHANGED PtyOthers

\* a Close that never looks at closed
Close_check_always(t) ==
    /\ pty.pc = "on"
    /\ pty.th[t].pc = "Close.check"
    /\ pty' = Goto(pty, t, "Close.mark")
    /\ UNCHANGED PtyOthers

\* if t.closed { return }
Close_check(t) ==
    /\ pty.pc = "on"
    /\ pty.th[t].pc = "Close.check"
    /\ pty' = Goto(pty, t, IF pty.closed THEN "Close.Unlock" ELSE "Close.mark")
    /\ UNCHANGED PtyOthers

\* t.closed = true
Close_mark(t) ==
    /\ pty.pc = "on"
    /\ pty.th[t].pc = "Close.mark"
    /\ pty' = [Goto(pty, t, "Close.ch") EXCEPT !.closed = TRUE]
    /\ UNCHANGED PtyOthers

\* signal.Stop(t.ch); close(t.ch)
Close_ch(t) ==
    /\ pty.pc = "on"
    /\ pty.th[t].pc = "Close.ch"
    /\ pty' = [Goto(pty, t, "Close.ptmx") EXCEPT !.chClosed = @ + 1]
    /\ UNCHANGED PtyOthers

\* t.ptmx.Close()
Close_ptmx(t) ==
    /\ pty.pc = "on"
    /\ pty.th[t].pc = "Close.ptmx"
    /\ pty' = [Goto(pty, t, "Close.Unlock") EXCEPT !.ptmxClosed = @ + 1]
    /\ UNCHANGED PtyOthers

\* if t.closed { return nil }
Resize_check(t) ==
    /\ pty.pc = "on"
    /\ pty.th[t].pc = "Resize.check"
    /\ pty' = IF pty.closed
              THEN [Goto(pty, t, "Resize.Unlock") EXCEPT !.th[t].ret = "nil"]
              ELSE Goto(pty, t, "Resize.Setsize")
    /\ UNCHANGED PtyOthers

\* pty.GetsizeFull(os.Stdin) and pty.Setsize(t.ptmx, size); stale: Setsize was
\* called on a ptmx that is closed
Resize_Setsize(t) ==
    /\ pty.pc = "on"
    /\ pty.th[t].pc = "Resize.Setsize"
    /\ \E how \in {"ok", "GetsizeFull fails", "Setsize fails"} :
          pty' = IF how = "GetsizeFull fails"
                 THEN [Goto(pty, t, "Resize.Unlock") EXCEPT !.th[t].ret = "err"]
                 ELSE IF how = "Setsize fails"
                 THEN [Goto(pty, t, "Resize.Unlock") EXCEPT
                          !.th[t].ret = "err", !.stale = @ \/ pty.ptmxClosed > 0]
                 ELSE [Goto(pty, t, "Resize.resize") EXCEPT
                          !.stale = @ \/ pty.ptmxClosed > 0]
    /\ UNCHANGED PtyOthers

\* if t.resize != nil { t.resize(cols) }; return nil
Resize_resize(t) ==
    /\ pty.pc = "on"
    /\ pty.th[t].pc = "Resize.resize"
    /\ pty' = [Goto(pty, t, "Resize.Unlock") EXCEPT
                  !.th[t].ret = "nil",
                  !.called = IF pty.resize THEN @ + 1 ELSE @]
    /\ UNCHANGED PtyOthers

\* the deferred t.mutex.Unlock(), and the call returns
Pty_Unlock(t) ==
    /\ pty.pc = "on"
    /\ pty.th[t].pc \in {"Close.Unlock", "Resize.Unlock"}
    /\ pty' = [Goto(pty, t, "idle") EXCEPT
                  !.mutex = "",
                  !.closes = IF pty.th[t].pc = "Close.Unlock" THEN @ + 1 ELSE @]
    /\ UNCHANGED PtyOthers

NextPty ==
    \/ Pty_signal
    \/ Pty_loop_receive
    \/ Pty_loop_exit
    \/ \E t \in Callers : Pty_Close_call(t)
    \/ \E t \in Callers : Pty_Resize_call(t)
    \/ \E t \in PtyThreads : Pty_Lock(t)
    \/ \E t \in PtyThreads : Close_check(t)
    \/ \E t \in PtyThreads : Close_mark(t)
    \/ \E t \in PtyThreads : Close_ch(t)
    \/ \E t \in PtyThreads : Close_ptmx(t)
    \/ \E t \in PtyThreads : Resize_check(t)
    \/ \E t \in PtyThreads : Resize_Setsize(t)
    \/ \E t \in PtyThreads : Resize_resize(t)
    \/ \E t \in PtyThreads : Pty_Unlock(t)

SpecPty == InitPty /\ [][NextPty]_vars

(***************************************************************************)
(* Properties of the runs.                                                 *)
(***************************************************************************)
Last(q) == q[Len(q)]

\* trz, or the peer, has written a frame of one of the types
ServerSent(types) == \E t \in types : <<"server", t>> \in wire.types

PeerSent(types) == \E t \in types : <<"peer", t>> \in wire.types

\* this step, trz writes a frame of one of the types
ServerAppends(types) ==
    /\ Len(toClient') = Len(toClient) + 1
    /\ Last(toClient').type \in types

\* this step, the peer writes a frame of one of the types
PeerAppends(types) ==
    /\ Len(toServer') = Len(toServer) + 1
    /\ Last(toServer').type \in types

RemoteTypes == {"EXIT", "fail", "FAIL"}

PhaseOrder == <<"ACT", "CFG", "FILES", "EXIT", "BYE">>

IsPrefix(q, t) == Len(q) <= Len(t) /\ q = SubSeq(t, 1, Len(q))

\* the error recvFiles returns for a directory the peer cannot send
DirectoryError == [message |-> MsgNoDirSupport, errType |-> "", trace |-> FALSE]

\* the error of a digest that differs (recvFileMD5), which has no traceback
MD5Error == newTrzszError(MsgCheckMD5)

\* the same error as a traceback error, with the stack such an error carries
MD5ErrorWithTrace == NewTrzszError(MsgCheckMD5, "", TRUE)

\* C1: once an ACT with confirm=false has been received, trz does nothing but
\* call serverExit("Cancelled") and return 0 with no error; it writes no frame
\* (no CFG, no SUCC, no error frame), never waits for a frame again, and the
\* peer writes no NUM nor any later frame.
C1_CancelEndsRun ==
    (phases # <<>> /\ ~action.Confirm) =>
        /\ phases = <<"ACT">>
        /\ pc \in {"checkAction", "done"}
        /\ ~ServerSent({"CFG", "SUCC", "fail", "FAIL"})
        /\ ~PeerSent(BatchTypes \cup RemoteTypes)
        /\ err = nil
        /\ errorCalls = <<>>
        /\ pc = "done" =>
            /\ farewell = <<MsgCancelled>>
            /\ exitCode = 0
            /\ term = "restored"

C1_Cancelled ==
    /\ pc = "done"
    /\ phases = <<"ACT">>
    /\ ~action.Confirm
    /\ farewell = <<MsgCancelled>>
    /\ exitCode = 0

\* C2: the phases of a run are a prefix of ACT, CFG, files, EXIT, farewell,
\* entered one at a time; the farewell is the summary "Received <names> to
\* <path>"; once recvFiles has an error (or has panicked) no further phase is
\* entered, serverError is called at most once in a run, and a run that ends
\* with an error has called it exactly once, with that error.
C2_PhasesInOrder ==
    [][ /\ IsPrefix(phases', PhaseOrder)
        /\ Len(phases') <= Len(phases) + 1
        /\ (err # nil \/ errorCalls # <<>> \/ pc = "panicked") => phases' = phases
        /\ Len(errorCalls') <= 1
        /\ (pc' = "done" /\ err' # nil) => errorCalls' = err'
        /\ (pc' # "done" /\ err' # nil) => errorCalls' = <<>>
        /\ (err' # nil) => pc' \in {"serverError", "done"}
        /\ (phases' = PhaseOrder) =>
              /\ err' = nil
              /\ farewell' = <<receivedSummary(recv'.localNames, DestPath)>>
      ]_vars

C2_ErrorAfterConfig ==
    /\ pc = "done"
    /\ phases = <<"ACT", "CFG">>
    /\ err # nil
    /\ errorCalls = err
    /\ farewell = <<err[1].message>>

\* C3: at every moment the frames NUM, NAME, SIZE, DATA, MD5 the peer has
\* written so far exceed the SUCC frames trz has written so far by at most
\* one; at most one such frame is waiting to be read; the peer is about to
\* send only when no SUCC is waiting unread; and at most one file is open: the
\* NAME frames sent exceed the files completed by at most one.
C3_SendReceiveAlternate ==
    /\ wire.unacked \in {0, 1}
    /\ Len(SelectSeq(toServer, LAMBDA f : f.type \in BatchTypes)) <= 1
    /\ peer.pc \in {"sendNum", "sendName", "sendSize", "sendData", "sendMD5", "sendExit"}
          => SelectSeq(toClient, LAMBDA f : f.type = "SUCC") = <<>>
    /\ wire.names - peer.idx \in {0, 1}

C3_SecondFileStarted ==
    /\ peer.idx = 1
    /\ peer.pc = "ackName"
    /\ wire.names = 2
    /\ wire.unacked = 1
    /\ PeerSent({"MD5"})

\* the SUCC payload the peer expects next (no value is expected for a name)
ExpectedSucc ==
    CASE peer.pc = "ackNum" -> Itoa(peer.num)
      [] peer.pc = "ackSize" -> Itoa(peer.size)
      [] peer.pc = "ackData" -> Itoa(peer.len)
      [] peer.pc = "ackMD5" -> encodeBytes(md5Sum(fileContent(peer.size)))
      [] OTHER -> <<>>

\* this step, the peer reads a SUCC whose value it compares
PeerReadsSucc ==
    /\ peer.pc \in {"ackNum", "ackSize", "ackData", "ackMD5"}
    /\ toClient # <<>>
    /\ Head(toClient).type = "SUCC"
    /\ toClient' = Tail(toClient)

\* the value the SUCC written in this step must carry for the frame f it answers
SuccEchoes(f, succ) ==
    CASE f.type \in {"NUM", "SIZE", "MD5"} -> succ.payload = f.payload
      [] f.type = "DATA" ->
            succ.payload = Itoa(Len(decodeData(args.Binary, f.payload).data))
      [] f.type = "NAME" ->
            decodeString(succ.payload) = [ok |-> TRUE, data |-> recv'.name]
      [] OTHER -> FALSE

\* C4: a SUCC trz writes carries the value of the frame it answers (the count,
\* the local name, the size, the decoded length of the chunk, the digest); when
\* the peer reads a SUCC whose value differs from the one it expects it stops
\* with a local traceback error, and a peer that has an error writes no further
\* NUM, NAME, SIZE, DATA or MD5 frame.
C4_SuccEchoesValue ==
    [][ /\ ServerAppends({"SUCC"}) =>
              /\ toServer # <<>>
              /\ SuccEchoes(Head(toServer), Last(toClient'))
        /\ (PeerReadsSucc /\ Head(toClient).payload # ExpectedSucc) =>
              /\ peer'.pc = "error"
              /\ peer'.err # nil
              /\ peer'.err[1].errType = ""
              /\ peer'.err[1].trace
        /\ (PeerReadsSucc /\ Head(toClient).payload = ExpectedSucc) => peer'.err = nil
        /\ peer.err # nil =>
              /\ ~PeerAppends(BatchTypes)
              /\ peer'.pc \in {"error", "done"}
      ]_vars

C4_IntegerMismatch ==
    /\ peer.pc = "done"
    /\ peer.err # nil
    /\ peer.err[1].errType = ""
    /\ Len(peer.err[1].message) > Len(MsgIntegerCheck)
    /\ SubSeq(peer.err[1].message, 1, Len(MsgIntegerCheck)) = MsgIntegerCheck
    /\ PeerSent({"FAIL"})

\* this step, trz reads an MD5 frame
ServerReadsMD5 ==
    /\ pc = "recvMD5"
    /\ toServer # <<>>
    /\ Head(toServer).type = "MD5"
    /\ toServer' = Tail(toServer)

\* the step of a run that reads an MD5 frame: SUCC (with the digest) is written
\* and the file counted only if the digest of the bytes written equals the
\* digest sent; otherwise no SUCC is written, the file is not counted and
\* recvFiles returns an error, which is e when the digest sent could be decoded;
\* a run that returned e never issues the summary of received files
DigestChecked(e) ==
    /\ ServerReadsMD5 =>
          IF decodeString(Head(toServer).payload) = [ok |-> TRUE, data |-> md5Sum(recv.data)]
          THEN /\ toClient' = Append(toClient, Frame("SUCC", Head(toServer).payload))
               /\ recv'.idx = recv.idx + 1
               /\ err' = nil
          ELSE /\ toClient' = toClient
               /\ recv' = recv
               /\ err' # nil
               /\ decodeString(Head(toServer).payload).ok => err' = <<e>>
    /\ err' = <<e>> =>
          /\ ~("BYE" \in {phases'[i] : i \in 1..Len(phases')})
          /\ farewell' \in {<<>>, <<e.message>>}

\* C5 as stated: the receiver acknowledges the MD5 frame with SUCC only if the
\* digest of the bytes it wrote equals the digest sent; on a mismatch it raises
\* "Check MD5 failed" as a fatal error with a traceback, and the file is never
\* reported as received.
C5_DigestMismatchHasTrace == [][DigestChecked(MD5ErrorWithTrace)]_vars

\* C5, amended: the same, and the error raised on a mismatch is "Check MD5
\* failed" without a traceback (the kind that is sent as a fail frame).
C5_DigestChecked == [][DigestChecked(MD5Error)]_vars

C5_DigestMismatch ==
    /\ pc = "done"
    /\ err = <<MD5Error>>
    /\ ~isTraceBack(MD5Error)
    /\ errorCalls = <<MD5Error>>
    /\ farewell = <<MsgCheckMD5>>
    /\ recv.idx = 0
    /\ Len(recv.data) = recv.size

\* C6: a run that ended because a digest differed has written one fail frame
\* to the peer, carrying the encoded message "Check MD5 failed", and ends with
\* a nonzero exit code.
C6_MD5MismatchExitsNonzero ==
    (pc = "done" /\ err = <<MD5Error>>) =>
        /\ ServerSent({"fail"})
        /\ ~ServerSent({"FAIL"})
        /\ exitCode # 0

C6_MD5MismatchExitsZero ==
    /\ pc = "done"
    /\ err = <<MD5Error>>
    /\ ServerSent({"fail"})
    /\ toClient # <<>>
    /\ Last(toClient) = Frame("fail", encodeString(MsgCheckMD5))
    /\ exitCode = 0

\* C7: when the ACT received confirms, a directory was requested and the ACT
\* does not declare support_directory, recvFiles returns the error "The client
\* doesn't support transfer directory", trz writes it to the peer as its one
\* frame (a fail frame with the encoded message), no CFG and no SUCC is
\* written, and nothing is received.
C7_DirectoryUnsupported ==
    (phases # <<>> /\ action.Confirm /\ args.Directory /\ ~action.SupportDirectory) =>
        /\ phases = <<"ACT">>
        /\ pc \in {"checkAction", "serverError", "done"}
        /\ ~ServerSent({"CFG", "SUCC"})
        /\ recv = RecvIdle
        /\ pc # "checkAction" => err = <<DirectoryError>>
        /\ pc = "done" =>
            /\ errorCalls = <<DirectoryError>>
            /\ wire.errors = 1
            /\ ServerSent({"fail"})
            /\ ~ServerSent({"FAIL"})
            /\ toClient \in {<<>>, <<Frame("fail", encodeString(MsgNoDirSupport))>>}
            /\ toClient = <<>> =>
                  peer.err = <<[message |-> MsgNoDirSupport, errType |-> "fail",
                                trace |-> TRUE]>>

C7_DirectoryRefused ==
    /\ pc = "done"
    /\ action.Confirm
    /\ args.Directory
    /\ ~action.SupportDirectory
    /\ err = <<DirectoryError>>
    /\ peer.err # nil
    /\ peer.err[1].message = MsgNoDirSupport

\* this step, recvFiles compares a confirming ACT that lacks support_binary
\* with a request for binary mode
BinaryUnsupported ==
    /\ pc = "checkAction"
    /\ action.Confirm
    /\ args.Binary
    /\ ~action.SupportBinary

\* this step, trz writes the CFG frame, and its binary field is what the
\* request has become, never set when the peer lacks support_binary
ConfigBinary ==
    ServerAppends({"CFG"}) =>
        /\ Last(toClient').payload.binary = args.Binary
        /\ Last(toClient').payload.binary => action.SupportBinary

\* C8 (as amended): when binary mode was requested and the confirming ACT does
\* not declare support_binary, the request becomes base64 mode and that raises
\* no error; recvFiles goes on to send CFG, unless a directory was requested
\* and the ACT lacks support_directory, in which case it returns that error and
\* sends no CFG.  A CFG that is sent has binary=false.
C8_BinaryFallsBack ==
    [][ /\ BinaryUnsupported =>
              /\ ~args'.Binary
              /\ IF args.Directory /\ ~action.SupportDirectory
                 THEN pc' = "serverError" /\ err' = <<DirectoryError>>
                 ELSE pc' = "sendConfig" /\ err' = nil
        /\ ConfigBinary
      ]_vars

C8_FellBack ==
    /\ BinaryUnsupported
    /\ ~args.Directory
    /\ ENABLED (recvFiles_checkAction /\ pc' = "sendConfig" /\ ~args'.Binary)

\* C8 as the specification words it: whenever binary mode was requested and the
\* confirming ACT does not declare support_binary, no error is raised and the
\* transfer proceeds to a CFG with binary=false.
C8_AsWritten ==
    [][ /\ BinaryUnsupported =>
              /\ ~args'.Binary
              /\ pc' = "sendConfig"
              /\ err' = nil
        /\ ConfigBinary
      ]_vars

\* C9: when the error handed to serverError has errType EXIT, fail or FAIL, trz
\* has written no fail or FAIL frame; a fail or FAIL frame of trz is on the wire
\* only after serverError was called with an error of another type.
C9_RemoteErrorNotEchoed ==
    /\ (errorCalls # <<>> /\ errorCalls[1].errType \in RemoteTypes) =>
          ~ServerSent(ErrorTypes)
    /\ ServerSent(ErrorTypes) =>
          /\ errorCalls # <<>>
          /\ errorCalls[1].errType \notin RemoteTypes

C9_RemoteFailReceived ==
    /\ pc = "done"
    /\ errorCalls # <<>>
    /\ errorCalls[1].errType = "FAIL"
    /\ PeerSent({"FAIL"})
    /\ ~ServerSent(ErrorTypes)

\* C10: serverError is called at most once in a run and trz writes a fail or
\* FAIL frame nowhere else; once it has been called with an error that is not
\* the peer's, exactly one such frame has been written: fail when the error has
\* no traceback, FAIL when it has, its payload the base64 text of the zlib
\* stream of the message, which decodes back to the message.
C10_OneErrorFrame ==
    /\ Len(errorCalls) <= 1
    /\ errorCalls = <<>> => wire.errors = 0 /\ ~ServerSent(ErrorTypes)
    /\ (errorCalls # <<>> /\ errorCalls[1].errType \notin RemoteTypes) =>
          /\ wire.errors = 1
          /\ ServerSent({IF errorCalls[1].trace THEN "FAIL" ELSE "fail"})
          /\ ~ServerSent({IF errorCalls[1].trace THEN "fail" ELSE "FAIL"})
          /\ (toClient # <<>> /\ Last(toClient).type \in ErrorTypes) =>
                /\ Last(toClient).type = IF errorCalls[1].trace THEN "FAIL" ELSE "fail"
                /\ Last(toClient).payload =
                      base64Encode(zlibCompress(errorCalls[1].message))
                /\ decodeString(Last(toClient).payload) =
                      [ok |-> TRUE, data |-> errorCalls[1].message]

C10_TracebackSentAsFAIL ==
    /\ pc = "done"
    /\ errorCalls # <<>>
    /\ errorCalls[1].errType = ""
    /\ errorCalls[1].trace
    /\ wire.errors = 1
    /\ ServerSent({"FAIL"})
    /\ toClient # <<>>
    /\ Last(toClient) = Frame("FAIL", encodeString(errorCalls[1].message))

HasSuffix(s, t) == Len(t) <= Len(s) /\ SubSeq(s, Len(s) - Len(t) + 1, Len(s)) = t

\* the error's message ends with a line break and the local stack
StackAttached(e) == HasSuffix(e.message, <<10>> \o debugStack)

\* C11: the error NewTrzszError returns carries the local stack never when its
\* type is fail or EXIT, whatever the traceback flag, and for every other type
\* (the empty one too) exactly when the traceback flag is true; the type and
\* the flag are stored as given.
C11_StackOnlyForLocalTraceback ==
    (call.fn = "NewTrzszError" /\ result # <<>>) =>
        /\ result[1].errType = call.errType
        /\ result[1].trace = call.trace
        /\ StackAttached(result[1]) <=>
               (call.errType \notin {"fail", "EXIT"} /\ call.trace)

C11_ExitWithTraceFlag ==
    /\ call.fn = "NewTrzszError"
    /\ call.errType = "EXIT"
    /\ call.trace
    /\ call.message = encodeString(MsgStopped)
    /\ result # <<>>
    /\ result[1].message = MsgStopped

\* the call of recvCheck returned, and the frame was not of the expected type
MismatchReturned ==
    /\ call.fn = "recvCheck"
    /\ result # <<>>
    /\ call.frame.type # call.expect

\* the message NewTrzszError stores for a payload received under a tag
MismatchText(type, payload) ==
    LET d == decodeString(payload)
        text == IF type \in RemoteTypes
                THEN IF d.ok THEN d.data
                     ELSE DecodeErrHead \o payload \o DecodeErrMid \o decodeErrText
                ELSE TrzszErrorPrefix \o TypeText(type) \o <<58, 32>> \o payload
    IN  IF type \in {"fail", "EXIT"} THEN text ELSE text \o <<10>> \o debugStack

\* C12 (amended): when recvCheck reads a frame of another type than expected
\* it fails with an error whose errType is the received tag, so that an EXIT
\* frame is classified as remote exit and a fail or FAIL frame as remote fail;
\* the message is not the payload as received: for EXIT, fail and FAIL it is
\* the payload decoded (or the decode error), for any other tag the payload
\* after "[TrzszError] <tag>: ", and the local stack follows unless the tag
\* is fail or EXIT.
C12_MismatchCarriesTag ==
    MismatchReturned =>
        /\ result[1].err # nil
        /\ LET e == result[1].err[1]
           IN  /\ e.errType = call.frame.type
               /\ isRemoteExit(e) <=> call.frame.type = "EXIT"
               /\ isRemoteFail(e) <=> call.frame.type \in {"fail", "FAIL"}
               /\ e.message = MismatchText(call.frame.type, call.frame.payload)

C12_FailWhereSuccExpected ==
    /\ MismatchReturned
    /\ call.expect = "SUCC"
    /\ call.frame = Frame("fail", encodeString(MsgStopped))
    /\ result[1].err # nil
    /\ isRemoteFail(result[1].err[1])
    /\ result[1].err[1].message = MsgStopped

\* C12 as written: the message of the error is the payload received
C12_AsWritten ==
    MismatchReturned =>
        /\ result[1].err # nil
        /\ result[1].err[1].errType = call.frame.type
        /\ result[1].err[1].message = call.frame.payload

\* this step is a call of stopTransferringFiles, by the pump or by the
\* goroutine of the signal handler
StopCalled ==
    \/ pump.pc = "stop" /\ pump'.pc = "Read"
    \/ sigstop.pc = "wait" /\ sigstop'.pc = "done"

Reading == reader.pc \in {"readLine", "readBinary"}

\* C13: every call of stopTransferringFiles leaves the transfer stopped; a
\* call made when one was made before, by whichever of the pump and the signal
\* handler, changes nothing of the buffer (the flag, the chunks queued, the
\* bytes taken), and stopping twice is stopping once; every read that
\* returns after a call returns Stopped.
C13_StopIdempotent ==
    [][/\ StopCalled => transfer'.stopped
       /\ (StopCalled /\ stopCalls >= 1) =>
             /\ transfer'.stopped = transfer.stopped
             /\ transfer'.queue = transfer.queue
             /\ transfer'.taken = transfer.taken
       /\ stopTransferringFiles(stopTransferringFiles(transfer)) =
              stopTransferringFiles(transfer)
       /\ (stopCalls >= 1 /\ Reading /\ ~Reading') => reader'.result = "Stopped"
      ]_vars

C13_StoppedTwice ==
    /\ stopCalls = 2
    /\ sigstop.pc = "done"
    /\ stdin.closed
    /\ reader.pc = "returned"
    /\ reader.result = "Stopped"

\* C14: a push made when the stop flag is set leaves the chunks queued and
\* the bytes taken as they were; the terminal is restored only out of the
\* cleanInput of serverExit, with the flag set and no input for the 500 ms it
\* waits for, the ignored pushes counted as input.
C14_StoppedPushIgnored ==
    [][/\ (pump.pc = "add" /\ pump'.pc = "Read" /\ transfer.stopped) =>
             /\ transfer'.queue = transfer.queue
             /\ transfer'.taken = transfer.taken
             /\ transfer'.quiet = 0
       /\ (reader'.pc = "restored" /\ reader.pc # "restored") =>
             /\ reader.pc = "serverExit"
             /\ transfer.stopped
             /\ reader.wait = EscalatedClean
             /\ transfer.quiet >= reader.wait
      ]_vars

C14_RestoredAfterIgnoredPush ==
    /\ reader.pc = "restored"
    /\ transfer.ignored
    /\ transfer.quiet >= EscalatedClean

\* C15: once stdin is closed, or a SIGINT or SIGTERM has been delivered,
\* stopTransferringFiles is eventually called; and once it has been called, a
\* read the state machine is in (with or without a timeout) eventually returns
\* Stopped.
C15_StopReachesReader ==
    /\ (stdin.closed \/ sigstop.ch # <<>> \/ sigstop.pc = "done") ~> (stopCalls >= 1)
    /\ (stopCalls >= 1 /\ Reading) ~>
           (reader.pc = "returned" /\ reader.result = "Stopped")

C15_SignalEndsRead ==
    /\ ~stdin.closed
    /\ sigstop.pc = "done"
    /\ stopCalls = 1
    /\ transfer.queue = <<>>
    /\ reader.pc = "returned"
    /\ ~reader.timeout
    /\ reader.result = "Stopped"

\* the chunk the pump has read and not yet handed over
InHand == IF pump.pc = "add" THEN SubSeq(mem[pump.buffer], 1, pump.n) ELSE <<>>

\* C16: while the transfer is not stopped, the bytes the reader has taken,
\* then the bytes of the chunks queued, then the chunk the pump holds, are the
\* bytes read from stdin so far, in the order read; no chunk queued lies in the
\* array the pump reads into.
C16_BytesInOrder ==
    /\ ~transfer.stopped =>
          transfer.taken \o QueuedBytes(transfer.queue) \o InHand =
              SubSeq(Input, 1, stdin.pos)
    /\ \A i \in 1..Len(transfer.queue) : transfer.queue[i].buffer # pump.buffer

C16_ReadWhileQueued ==
    /\ ~transfer.stopped
    /\ transfer.taken # <<>>
    /\ transfer.queue # <<>>
    /\ pump.pc = "add"
    /\ stdin.pos = MaxInput

\* C17: readLine with junk allowed, on a frame #TYPE:PAYLOAD written with
\* escape sequences (ESC up to the next letter) anywhere in it, junk before it
\* and the line end after it, returns the frame and nothing else.
C17_JunkRemoved ==
    (call.fn = "readLine" /\ call.allowJunk /\ result # <<>>) =>
        /\ result[1].err = "nil"
        /\ result[1].line = call.sent

C17_SequenceInsideMarker ==
    /\ call.fn = "readLine"
    /\ call.allowJunk
    /\ call.buf = <<35, 78, 85, 77, 58, 57>> \o <<35, 78, 27, 91, 50, 65, 85, 77, 58>>
                  \o <<27, 91, 48, 109>> \o <<49, 50, 10>>
    /\ result # <<>>
    /\ result[1].line = <<35, 78, 85, 77, 58, 49, 50>>

IsEntry(name) == name \in call.dir.files \cup call.dir.links

\* the numbers i in 0..999 for which name.i is no entry
FreeNumbers == {i \in 0..(ProbeLimit - 1) : ~IsEntry(newName(call.name, i))}

\* C19: getNewName(path, name) returns name when path/name does not exist;
\* otherwise name.i for the smallest i in 0..999 such that path/name.i does
\* not exist; it fails exactly when name and all of name.0 .. name.999 exist;
\* the name returned never is that of an entry that existed.
C19_FirstFreeName ==
    (call.fn = "getNewName" /\ result # <<>>) =>
        /\ ~IsEntry(call.name) =>
              result[1] = [name |-> call.name, err |-> nil]
        /\ (IsEntry(call.name) /\ FreeNumbers # {}) =>
              result[1] = [name |-> newName(call.name, Min0(FreeNumbers)), err |-> nil]
        /\ (result[1].err # nil) <=> (IsEntry(call.name) /\ FreeNumbers = {})
        /\ (result[1].err = nil) => ~IsEntry(result[1].name)

\* getNewName has returned the name of a symbolic link of the directory
C19_LinkNameReturned ==
    /\ call.fn = "getNewName"
    /\ result # <<>>
    /\ result[1].err = nil
    /\ result[1].name \in call.dir.links

\* in directories without such links, for names that fit with their number,
\* the name returned is the first free one
PlainDirectoryFirstFree ==
    (call.fn = "getNewName" /\ call.dir.links = {}
       /\ Len(call.name) + 4 <= NameMax) => C19_FirstFreeName

\* every record of a path_id was placed under one root
SameRoot(i) ==
    \A j \in DOMAIN naming.placed :
        naming.placed[j].path_id = naming.placed[i].path_id =>
            naming.placed[j].root = naming.placed[i].root

\* C20 as stated: in directory mode the root name of a path_id is chosen when
\* its first record arrives and stored in fileNameMap; every record of the
\* path_id is placed under that root, also when the name first proposed exists
\* by then.
C20_RootStoredInMap ==
    \A i \in DOMAIN naming.placed :
        /\ naming.placed[i].path_id \in DOMAIN naming.fileNameMap
        /\ naming.placed[i].root = naming.fileNameMap[naming.placed[i].path_id]
        /\ SameRoot(i)

\* C20, amended: without overwrite the root name of a path_id is chosen when
\* its first record arrives and stored in fileNameMap, and every record of the
\* path_id is placed under it, also when the name first proposed exists by
\* then; with overwrite nothing is stored and every record is placed under its
\* own rel_path[0], which is one root for the records of a path_id.
C20_OneRootPerPathID ==
    \A i \in DOMAIN naming.placed :
        /\ ~naming.overwrite =>
              /\ naming.placed[i].path_id \in DOMAIN naming.fileNameMap
              /\ naming.placed[i].root = naming.fileNameMap[naming.placed[i].path_id]
        /\ naming.overwrite =>
              /\ naming.fileNameMap = <<>>
              /\ naming.placed[i].root = naming.placed[i].rel_path[1]
        /\ SameRoot(i)

\* without overwrite the root of path_id 0 was placed as d, which exists since
\* then, and the next record of path_id 0 was placed under d as well, while
\* the root of path_id 1, d too, was placed as d.0
C20_LaterRecordUnderSameRoot ==
    /\ ~naming.overwrite
    /\ Len(naming.placed) = 3
    /\ naming.placed[1] = [path_id |-> 0, rel_path |-> <<NameD>>, root |-> NameD]
    /\ naming.placed[2] = [path_id |-> 1, rel_path |-> <<NameD>>, root |-> newName(NameD, 0)]
    /\ naming.placed[3] = [path_id |-> 0, rel_path |-> <<NameD, NameA>>, root |-> NameD]
    /\ NameD \in destDir.files

\* checkPathsReadable has returned
Walked == walk.pc \in {"returned", "batch"}

\* checkPathReadable is being called for a directory whose real path is in
\* visitedDir
Revisits ==
    /\ walk.pc = "check"
    /\ fs[walk.cur.node].kind \in DirKinds
    /\ walk.cur.node \in walk.visited

\* C21: the walk ends; when it comes to a directory whose real path it has
\* visited in the walk of the same path (a loop of links), it fails with
\* "Duplicate link" instead of entering the directory again.
C21_WalkTerminates ==
    /\ <>Walked
    /\ [][Revisits => /\ walk'.pc = "returned"
                      /\ walk'.err = walkError("link", walk.cur.relPath)
                      /\ walk'.stack = walk.stack]_vars

\* the directory d holds sub, a link to d itself: the walk has ended with
\* "Duplicate link: d/sub"
C21_LoopRefused ==
    /\ walk.pc = "returned"
    /\ walk.paths = <<[name |-> NameD, node |-> 1]>>
    /\ NameSub \in DOMAIN fs[1].target
    /\ fs[1].target[NameSub] = 1
    /\ walk.err = walkError("link", <<NameD, NameSub>>)

\* nothing the walk has looked at stands in its way: the paths exist, what
\* they and the entries lead to is a regular file one may read or a directory
\* one may list, and no path is a directory unless directories are allowed
AllReadable ==
    /\ \A k \in 1..Len(walk.paths) :
          /\ walk.paths[k].node > 0
          /\ walk.directory \/ fs[walk.paths[k].node].kind \notin DirKinds
    /\ \A k \in 1..Len(fs) :
          /\ fs[k].kind \in {"file", "dir"}
          /\ \A name \in DOMAIN fs[k].target : fs[k].target[name] # 0

\* C22: the walk is all or nothing: if a path does not exist or is a directory
\* while directories are not allowed, or an entry reached is neither a regular
\* file nor a directory or cannot be read, checkPathsReadable returns an error
\* and no list, and nothing has been written to the peer.
C22_AllOrNothing ==
    walk.pc = "returned" =>
        /\ ~AllReadable => (walk.err # nil /\ walk.result = <<>>)
        /\ walk.err # nil => walk.result = <<>>
        /\ walk.err = nil => walk.result = <<walk.list>>
        /\ wire = NoFrames /\ toClient = <<>> /\ stdout = <<>>

\* the walk came to a file that is neither regular nor a directory after it
\* had put records in list, and has returned the error and no list
C22_SpecialFileDeepInside ==
    /\ walk.pc = "returned"
    /\ walk.err = walkError("special", <<NameD, NameSub, NameF>>)
    /\ Len(walk.list) >= 2
    /\ walk.result = <<>>

\* C23: in a batch that passed the walk and checkDuplicateNames, RelPath[0] of
\* every record is the name of the path with index PathID, and no two records
\* have the same joined RelPath, so (PathID, RelPath) is unique.
C23_RecordsDistinct ==
    (walk.pc = "batch" /\ walk.err = nil) =>
        /\ \A i \in 1..Len(walk.result[1]) :
              /\ walk.result[1][i].PathID \in 0..(walk.n - 1)
              /\ walk.result[1][i].RelPath[1] = walk.paths[walk.result[1][i].PathID + 1].name
        /\ \A i, j \in 1..Len(walk.result[1]) :
              i # j =>
                 /\ pathOf(walk.result[1][i].RelPath) # pathOf(walk.result[1][j].RelPath)
                 /\ <<walk.result[1][i].PathID, walk.result[1][i].RelPath>>
                       # <<walk.result[1][j].PathID, walk.result[1][j].RelPath>>

\* a batch of the directory d with an entry and of the file f has passed
C23_TwoRootsPassed ==
    /\ walk.pc = "batch"
    /\ walk.err = nil
    /\ Len(walk.result[1]) = 3
    /\ walk.result[1][1] = TrzszFile(0, <<NameD>>, TRUE)
    /\ walk.result[1][3] = TrzszFile(1, <<NameF>>, FALSE)

\* the one path is the directory d, whose only content is d/sub/f
TreeDSubF ==
    /\ walk.n = 1
    /\ walk.paths = <<[name |-> NameD, node |-> 1]>>
    /\ fs = <<[kind |-> "dir", read |-> TRUE, names |-> {NameSub},
               target |-> withName(<<>>, NameSub, 2)],
              [kind |-> "dir", read |-> TRUE, names |-> {NameF},
               target |-> withName(<<>>, NameF, 3)],
              newNode("file")>>

\* C24: for the one directory d whose only content is the file d/sub/f, the
\* walk yields a record for every directory and one for the file: d and d/sub
\* with IsDir true, then d/sub/f.
C24_RecordPerDirectory ==
    (walk.pc = "returned" /\ TreeDSubF) =>
        /\ walk.err = nil
        /\ walk.result =
              << <<[PathID |-> 0, RelPath |-> <<NameD>>, IsDir |-> TRUE],
                   [PathID |-> 0, RelPath |-> <<NameD, NameSub>>, IsDir |-> TRUE],
                   [PathID |-> 0, RelPath |-> <<NameD, NameSub, NameF>>, IsDir |-> FALSE]>> >>

C24_WalkedDSubF ==
    /\ walk.pc = "returned"
    /\ TreeDSubF
    /\ Len(walk.list) = 3

\* C24 as it stands: exactly two records, first d with IsDir true, then
\* d/sub/f
C24_AsWritten ==
    (walk.pc = "returned" /\ TreeDSubF) =>
        walk.result =
            << <<[PathID |-> 0, RelPath |-> <<NameD>>, IsDir |-> TRUE],
                 [PathID |-> 0, RelPath |-> <<NameD, NameSub, NameF>>, IsDir |-> FALSE]>> >>

\* C25: for every byte string b, decodeString(encodeBytes(b)) succeeds and
\* returns exactly b.
C25_DecodeInvertsEncode ==
    (call.fn = "codec" /\ result # <<>>) =>
        result[1].decoded = [ok |-> TRUE, data |-> call.buf]

\* the bytes 255, 0, 10 came back from text that ends with padding
C25_ThreeBytesRoundTrip ==
    /\ call.fn = "codec"
    /\ call.buf = <<255, 0, 10>>
    /\ result # <<>>
    /\ result[1].encoded[Len(result[1].encoded)] = 61
    /\ result[1].decoded.ok
    /\ result[1].decoded.data = <<255, 0, 10>>

\* C26: for every payload-safe escape table E and every byte string b,
\* unescape(escape(b, E), E) = b, where escape replaces the lead first and then
\* the other entries in the order of the table.
C26_UnescapeInvertsEscape ==
    (call.fn = "escape" /\ result # <<>>) =>
        /\ result[1].escaped =
              replaceEach(call.buf, leadEntries(call.table) \o otherEntries(call.table))
        /\ result[1].unescaped = [ok |-> TRUE, data |-> call.buf]

\* in the table the entry of the lead stands last; the bytes 2, 0xee, "1" were
\* sent as 0xee "1", 0xee 0xee, "1" and came back
C26_LeadLastInTable ==
    /\ call.fn = "escape"
    /\ call.table = <<[orig |-> 2, pair |-> <<238, 49>>],
                      [orig |-> 238, pair |-> <<238, 238>>]>>
    /\ call.buf = <<2, 238, 49>>
    /\ result # <<>>
    /\ result[1].escaped = <<238, 49, 238, 238, 49>>
    /\ result[1].unescaped.data = <<2, 238, 49>>

\* whether the text of the call is a decimal number with one of the suffixes
\* b, k, kb, m, mb, g, gb in any case, or none
SizeWellFormed ==
    /\ leadingDigits(call.buf) >= 1
    /\ unitOf(suffixOf(call.buf, leadingDigits(call.buf))) >= 0

\* the byte count the text denotes: the number times 1, 1024, 1024^2 or 1024^3
SizeDenoted ==
    shifted(decimal(call.buf, leadingDigits(call.buf)),
            unitOf(suffixOf(call.buf, leadingDigits(call.buf))))

\* C27: UnmarshalText accepts a text exactly when it is a decimal number with
\* an optional suffix b/k/kb/m/mb/g/gb in any case and the byte count it
\* denotes lies between 1024 and 1073741824; then Size is that byte count, so
\* an accepted Size is within 1 KiB .. 1 GiB.
C27_AcceptsSizesInRange ==
    (call.fn = "UnmarshalText" /\ result # <<>>) =>
        /\ (result[1].err = nil) <=>
              (SizeWellFormed /\ ~below1K(SizeDenoted) /\ ~above1G(SizeDenoted))
        /\ (result[1].err = nil) =>
              /\ SizeDenoted = [k \in 1..11 |-> IF k <= 4 THEN SizeDenoted[k] ELSE 0]
              /\ result[1].Size = valueOf(SizeDenoted)
              /\ result[1].Size >= 1024
              /\ result[1].Size <= 1073741824

\* "17179869185g", which is 2^64 + 2^30 bytes, was accepted as 1 GiB
C27_OverflowAccepted ==
    /\ call.fn = "UnmarshalText"
    /\ call.buf = <<49, 55, 49, 55, 57, 56, 54, 57, 49, 56, 53, 103>>
    /\ result # <<>>
    /\ result[1].err = nil
    /\ result[1].Size = 1073741824

\* an accepted Size is within 1 KiB .. 1 GiB, and a text whose byte count
\* fits an int64 is accepted exactly as C27 says
SizesWithoutOverflow ==
    (call.fn = "UnmarshalText" /\ result # <<>>) =>
        /\ (result[1].err = nil) => (result[1].Size >= 1024 /\ result[1].Size <= 1073741824)
        /\ (SizeWellFormed /\ fitsInt64(SizeDenoted)) => C27_AcceptsSizesInRange

\* C28: with MaxBufSize = 10 MiB, while every chunk fills the buffer and is
\* acknowledged in under 500 ms, bufSize is 1 KiB doubled once per chunk and
\* is 10 MiB from the 14th chunk on; and bufSize never exceeds MaxBufSize.
C28_ChunkGrowsToMax ==
    (sending.pc # "off" /\ sending.max = DefaultMaxBufSize) =>
        /\ sending.bufSize <= sending.max
        /\ (sending.steady /\ sending.chunks >= 14) => sending.bufSize = 10 * MiB
        /\ (sending.steady /\ sending.chunks < 14) =>
              sending.bufSize = KiB * 2 ^ sending.chunks

\* fourteen chunks that filled the buffer were acknowledged fast: the last of
\* them was of 8 MiB, and the next is of 10 MiB
C28_FourteenFastChunks ==
    /\ sending.pc = "loop"
    /\ sending.max = DefaultMaxBufSize
    /\ sending.steady
    /\ sending.chunks = 14
    /\ sending.step = KiB * (2 ^ 14 - 1)
    /\ sending.bufSize = 10485760

\* the number a unique id without its suffix denotes, as its last six digits
\* and the digits before them
idCut(id) == IF Len(id) > 6 THEN Len(id) - 6 ELSE 0

idLow(id) == digitsValue(SubSeq(id, idCut(id) + 1, Len(id)))

idHigh(id) == digitsValue(SubSeq(id, 1, idCut(id)))

\* whether a frame has been written or read
FramesExchanged == wire # NoFrames \/ toClient # <<>> \/ toServer # <<>>

\* C29: the marker has mode D if and only if the directory flag is set, else
\* R; its unique id is the decimal numeral of the clock's milliseconds modulo
\* 10^11 followed by 10 on Windows, else 20 in tmux normal mode, else 00; it is
\* written once at most, and it has been written when a frame is read or
\* written and when the terminal is raw.
C29_MarkerOnceBeforeFrames ==
    /\ Len(Markers(stdout)) <= 1
    /\ (FramesExchanged \/ term = "raw") => Len(Markers(stdout)) = 1
    /\ \A i \in 1..Len(stdout) :
          stdout[i].what = "marker" =>
             /\ (stdout[i].mode = "D") <=> args.Directory
             /\ (stdout[i].mode = "R") <=> ~args.Directory
             /\ IsDigits(stdout[i].id)
             /\ Len(stdout[i].id) <= 11
             /\ Len(stdout[i].id) > 1 => stdout[i].id[1] # 48
             /\ idLow(stdout[i].id) = now[1]
             /\ idHigh(stdout[i].id) = now[2] % 100000
             /\ isWindows => stdout[i].suffix = "10"
             /\ (~isWindows /\ tmux.mode = TmuxNormalMode) => stdout[i].suffix = "20"
             /\ (~isWindows /\ tmux.mode # TmuxNormalMode) => stdout[i].suffix = "00"

\* in tmux normal mode with -d, at 1 912 345 000 007 ms, the marker of mode D
\* with the unique id 12345000007 and 20 was written after the lines that make
\* room, and frames have been exchanged since
C29_DirectoryMarkerInTmux ==
    /\ args.Directory
    /\ now = Clock2030
    /\ stdout = <<[what |-> "cursor"],
                  [what |-> "marker", mode |-> "D",
                   id |-> <<49, 50, 51, 52, 53, 48, 48, 48, 48, 48, 55>>,
                   suffix |-> "20"]>>
    /\ toClient # <<>>
    /\ toServer # <<>>

\* the steps of TrzMain that validate the destination and the terminal
ValidationSteps == {"Abs", "checkPathWritable", "checkTmux"}

\* whether a validation step has failed
ValidationFailed == stderr # <<>> /\ stderr[1].step \in ValidationSteps

\* C30: when the destination path cannot be resolved, the destination is
\* missing, is not a directory or is not writable, or the tmux probe fails,
\* the run has ended with a negative exit code, the marker is not written, the
\* terminal is not raw and no frame was exchanged; and a run that ended
\* without a marker ended so.
C30_ValidationFailsBeforeHandshake ==
    /\ ValidationFailed =>
          /\ pc = "done"
          /\ exitCode < 0
          /\ stdout = <<>>
          /\ term = "cooked"
          /\ ~FramesExchanged
          /\ peer.pc = "idle"
          /\ phases = <<>>
    /\ (pc = "done" /\ Markers(stdout) = <<>>) => ValidationFailed
    /\ pc \in {"checkPathWritable", "checkTmux", "marker"} => stderr = <<>>

\* the destination is a file: trz has printed "Not a directory" and returned -2
C30_DestinationIsFile ==
    /\ stderr = <<[step |-> "checkPathWritable", text |-> "Not a directory"]>>
    /\ pc = "done"
    /\ exitCode = -2
    /\ stdout = <<>>
    /\ term = "cooked"

\* the places of TrzMain after term.MakeRaw has succeeded
AfterMakeRaw == ReadingPcs \cup {"checkAction", "sendConfig", "farewell",
                                 "serverError", "panicked"}

ThreeFieldAnswer ==
    /\ call.fn = "checkTmux"
    /\ result # <<>>
    /\ call.probe.cmdOk
    /\ Len(call.probe.tokens) = 3

\* C32: for every three-field answer tty:control_mode:width of the probe,
\* checkTmux returns TmuxControlMode with the process stdout as writer when
\* control_mode is 1 or tty is not an absolute path, an empty tty included;
\* otherwise it opens the tty, and when the tty opens and the width is empty
\* or a number it returns TmuxNormalMode with the tty as writer.
C32_ModeFromAnswer ==
    ThreeFieldAnswer =>
       LET t == call.probe.tokens
           r == result[1]
       IN  IF t[2] = "1" \/ ~IsAbsolute(t[1])
           THEN r.kind = "ok" /\ r.mode = TmuxControlMode /\ r.writer = "stdout"
           ELSE (call.probe.exists /\ call.probe.openOk /\ t[3] \in {"", "80"}) =>
                   r.kind = "ok" /\ r.mode = TmuxNormalMode /\ r.writer = "tty"

\* the probe answered an empty tty and a control mode other than 1: checkTmux
\* has raised a panic instead of returning
C32_EmptyTtyPanics ==
    /\ ThreeFieldAnswer
    /\ call.probe.tokens = <<"", "", "80">>
    /\ result[1].kind = "panic"

\* what C32 says holds for every answer whose tty is not empty, and for an
\* empty tty in control mode 1; a tty that does not exist gives
\* TmuxControlMode, a tty that does not open or a width that is no number
\* gives an error
C32_ModeFromNamedTty ==
    (ThreeFieldAnswer /\ (call.probe.tokens[1] # "" \/ call.probe.tokens[2] = "1")) =>
       LET t == call.probe.tokens
           r == result[1]
       IN  IF t[2] = "1" \/ ~IsAbsolute(t[1]) \/ ~call.probe.exists
           THEN r.kind = "ok" /\ r.mode = TmuxControlMode /\ r.writer = "stdout"
                /\ r.width = -1
           ELSE IF call.probe.openOk /\ t[3] \in {"", "80"}
           THEN r.kind = "ok" /\ r.mode = TmuxNormalMode /\ r.writer = "tty"
                /\ r.width = (IF t[3] = "" THEN -1 ELSE 80)
           ELSE r.kind = "err"

\* this step is a call of onStep
StepCalled == progress.pc = "sized" /\ progress'.steps = progress.steps + 1

\* C33 as stated: an onStep call within the refresh interval of the last
\* progress line writes nothing, every onStep call reads the clock exactly
\* once, and the number of writes never exceeds the number of onStep calls.
C33_WritesWithinSteps ==
    [][/\ StepCalled =>
             /\ progress'.reads = progress.reads + 1
             /\ (progress.last # -1 /\ progress'.clock - progress.last < progress.interval)
                    => progress'.writes = progress.writes
       /\ progress.pc # "off" => Len(progress'.writes) <= progress'.steps]_vars

\* C33: an onStep call within the refresh interval of the last progress line
\* writes nothing, and every onStep call reads the clock exactly once and
\* writes one line at most; so the number of progress lines written never
\* exceeds the number of onStep calls, two lines are a refresh interval apart
\* at least, and the bar writes nothing else but one carriage return for each
\* onDone call, for which it does not read the clock.
C33_LinesWithinSteps ==
    [][/\ StepCalled =>
             /\ progress'.reads = progress.reads + 1
             /\ (progress.last # -1 /\ progress'.clock - progress.last < progress.interval)
                    => progress'.writes = progress.writes
             /\ Len(progress'.writes) <= Len(progress.writes) + 1
       /\ progress.pc # "off" =>
             /\ Len(Lines(progress'.writes)) <= progress'.steps
             /\ Len(progress'.writes) = Len(Lines(progress'.writes)) + progress'.dones
             /\ progress'.reads = progress'.sizes + progress'.steps
             /\ \A i, j \in 1..Len(progress'.writes) :
                    (i < j /\ progress'.writes[i].kind = "line"
                           /\ progress'.writes[j].kind = "line")
                       => progress'.writes[j].at - progress'.writes[i].at
                             >= progress.interval]_vars

\* TestProgressReduceOutput: the clock was read at 0, 1 and 99 ms, onStep was
\* called twice, and the one line written is that of the first call
C33_SecondStepSilent ==
    /\ progress.pc = "sized"
    /\ progress.reads = 3
    /\ progress.clock = 99
    /\ progress.steps = 2
    /\ progress.writes = <<[kind |-> "line", at |-> 1]>>

\* this step, a chunk is acknowledged
ChunkAcked == sending.pc = "loop" /\ sending'.chunks = sending.chunks + 1

\* C34: while a file is sent, 1024 <= bufSize <= MaxBufSize; bufSize changes
\* only in the step in which a chunk is acknowledged; and that step sets it
\* back to 1024 from a larger size exactly when the chunk did not double the
\* buffer, took 2 s or more, and bufSize was above 1024.
C34_BufSizeWithinBounds ==
    [][sending.pc # "off" =>
          /\ KiB <= sending.bufSize /\ sending.bufSize <= sending.max
          /\ KiB <= sending'.bufSize /\ sending'.bufSize <= sending'.max
          /\ sending'.bufSize # sending.bufSize => ChunkAcked
          /\ ChunkAcked =>
                /\ sending'.last.buf = sending.bufSize
                /\ (sending.bufSize > KiB /\ sending'.bufSize = KiB)
                      <=> /\ ~(/\ sending'.last.len = sending.bufSize
                               /\ sending'.last.time < 500
                               /\ sending.bufSize < sending.max)
                          /\ sending'.last.time >= 2000
                          /\ sending.bufSize > KiB]_vars

\* a chunk read into a buffer of 4 KiB was acknowledged after 2 s: the next
\* buffer is of 1 KiB again
C34_ResetAfterSlowChunk ==
    /\ sending.pc = "loop"
    /\ sending.last = [buf |-> 4096, len |-> 4096, time |-> 2000]
    /\ sending.bufSize = 1024
    /\ sending.step < sending.size

\* this step, the sender writes the MD5 frame of a file
MD5Sent == peer.pc = "sendMD5" /\ peer'.pc = "ackMD5"

ConfigsInFlight == SelectSeq(toClient, LAMBDA f : f.type = "CFG")

\* C36: inside tmux (normal or control mode) and on Windows the binary flag
\* is off from the moment the marker is written, and every CFG frame trz
\* writes there has binary = false; outside of both, the flag is what the
\* user and the peer's ACT make it.
C36_NoBinaryInTmuxOrWindows ==
    (inTmux \/ isWindows) =>
        /\ tmux.mode # NoTmux => inTmux
        /\ Markers(stdout) # <<>> => ~args.Binary
        /\ pc \in AfterMakeRaw => ~args.Binary
        /\ \A i \in 1..Len(ConfigsInFlight) : ~ConfigsInFlight[i].payload.binary
        /\ peer.cfg # <<>> => ~peer.cfg[1].binary
        /\ <<"server", "CFG">> \in wire.types => ~args.Binary

\* on Windows outside tmux, trz was started with -b: it has printed the
\* notice before the marker, and the peer has read a CFG without binary
C36_WindowsSwitchedToBase64 ==
    /\ isWindows
    /\ ~inTmux
    /\ Len(stdout) = 2
    /\ stdout[1] = [what |-> "notice", text |-> "Windows"]
    /\ stdout[2].what = "marker"
    /\ peer.cfg # <<>>
    /\ ~peer.cfg[1].binary

\* C37: however the calls of Close and Resize interleave, close(ch) and
\* ptmx.Close() are executed once at most, and exactly once as soon as a
\* call of Close has returned; Setsize is never called on a closed ptmx; and
\* a Resize that was called after a Close had returned does not reach Setsize
\* or the callback, and returns nil.
C37_ClosedOnce ==
    pty.pc = "on" =>
        /\ pty.chClosed <= 1
        /\ pty.ptmxClosed <= 1
        /\ pty.closes > 0 => (pty.closed /\ pty.chClosed = 1 /\ pty.ptmxClosed = 1)
        /\ ~pty.stale
        /\ \A t \in PtyThreads :
              (pty.th[t].late /\ pty.th[t].pc \notin {"idle", "exited", "Close.Lock",
                                                      "Close.check", "Close.mark",
                                                      "Close.ch", "Close.ptmx",
                                                      "Close.Unlock"}) =>
                 /\ pty.th[t].pc \in {"Resize.Lock", "Resize.check", "Resize.Unlock"}
                 /\ pty.th[t].pc = "Resize.Unlock" => pty.th[t].ret = "nil"

\* Close has returned twice, and a Resize called after that is about to
\* return nil; the callback was called before the pty was closed
C37_ResizeAfterTwoCloses ==
    /\ pty.pc = "on"
    /\ pty.closes = 2
    /\ pty.chClosed = 1
    /\ pty.called > 0
    /\ \E t \in Callers :
          /\ pty.th[t].late
          /\ pty.th[t].pc = "Resize.Unlock"
          /\ pty.th[t].ret = "nil"

\* the directory files the walk has opened and that are open still
OpenHandles == walk.opened - walk.closed

\* C38: every directory file the walker opens is closed by the time the walk
\* of that directory returns, with or without an error: while the walk runs
\* no more files are open than directories are being walked, and when it has
\* returned none is open.
C38_HandlesClosed ==
    walk.pc # "off" =>
        /\ OpenHandles <= Len(walk.stack)
        /\ walk.pc \in {"returned", "batch"} => OpenHandles = 0

\* the walk of a directory with a subdirectory has returned its list without
\* an error, and the two files it opened are open still
C38_HandlesLeftOpen ==
    /\ walk.pc = "returned"
    /\ walk.err = nil
    /\ Len(walk.result[1]) = 2
    /\ walk.opened = 2
    /\ walk.closed = 0

\* an ASCII letter
IsLetter(b) == b \in (65..90) \cup (97..122)

\* the places of buf that lie in an escape sequence: from an ESC up to and
\* including the next letter, or up to the end if no letter follows
InSequence(buf) ==
    {i \in 1..Len(buf) :
       \E j \in 1..i : buf[j] = 27 /\ \A k \in (j + 1)..(i - 1) : ~IsLetter(buf[k])}

\* the bytes of buf at the places that are not in S, in their order
Without(buf, S) ==
    LET keep == {i \in 1..Len(buf) : i \notin S}
        nth(n) == CHOOSE i \in keep : Cardinality({j \in keep : j <= i}) = n
    IN  [n \in 1..Cardinality(keep) |-> buf[nth(n)]]

\* C39: the output of trimVT100 is its input without the bytes from each ESC
\* up to and including the next ASCII letter, and without everything from an
\* ESC that no letter follows; what is left is in the order of the input and
\* holds no ESC.
C39_TrimDropsSequences ==
    (call.fn = "trimVT100" /\ result # <<>>) =>
        /\ result[1] = Without(call.buf, InSequence(call.buf))
        /\ \A i \in 1..Len(result[1]) : result[1][i] # 27
        /\ Len(result[1]) <= Len(call.buf)
        /\ \A j \in 1..Len(call.buf) :
              (call.buf[j] = 27 /\ \A k \in (j + 1)..Len(call.buf) : ~IsLetter(call.buf[k]))
                 => result[1] = trimVT100(SubSeq(call.buf, 1, j - 1))

\* "1" ESC "[" "Z" was trimmed to "1", the sequence ending at the capital
\* letter right below "["
C39_SequenceDropped ==
    /\ call.fn = "trimVT100"
    /\ call.buf = <<49, 27, 91, 90>>
    /\ result = <<(<<49>>)>>

====
